---- MODULE Spec2Model ----
(***************************************************************************)
(* Model of transient-btree-index: the B-tree engine of                    *)
(* src/btree/inline_keys.rs over the node page store of src/btree/node.rs  *)
(* and the variable tuple store of src/file.rs.                            *)
(*                                                                         *)
(* The index is one record threaded through the operators; its field err   *)
(* is "ok" until an operation returns Err(kind) or panics ("panic"), and   *)
(* every operator passes a failed record through unchanged, as the `?`     *)
(* operator does.  Key slots hold the key itself (fixed-key mode).         *)
(***************************************************************************)
EXTENDS Integers, Sequences, FiniteSets, TLC

\* ------------------------------------------------------------------ bounds
MaxKey == 5
MaxOps == 6
MaxOrderProbe == 170
MaxCapacity == 1
SwapInserts == 4
SwapOps == 5
ConcInserts == 4

\* --------------------------------------------------------- program constants
NODE_BLOCK_SIZE == 4081
NODE_BLOCK_ALIGNED_SIZE == 4096
MAX_NUMBER_KEYS == 169
MAX_NUMBER_CHILD_NODES == MAX_NUMBER_KEYS + 1
PAGE_SIZE == 4096
BlockHeader_size == 16

Keys == 1..MaxKey
BigValue == 300
BigEvery == 3

Max(a, b) == IF a >= b THEN a ELSE b

\* Notation.  With(e, LAMBDA x : body) is body with x = e: a let binding of
\* the source.
With(v, G(_)) == G(v)

\* --------------------------------------------------------------- slot arrays
\* A slot array of a page: the slots written so far; the anonymous mapping is
\* zero-filled, so a slot never written reads 0.
Slot(arr, i) == IF i \in DOMAIN arr THEN arr[i] ELSE 0

SetSlot(arr, i, v) == [j \in (DOMAIN arr) \cup {i} |-> IF j = i THEN v ELSE arr[j]]

NoSlots == [j \in {} |-> 0]

ZeroPage ==
    [id |-> 0, num_keys |-> 0, is_leaf |-> 0,
     keys |-> NoSlots, payloads |-> NoSlots, child_nodes |-> NoSlots]

Fail(s, e) == IF s.err = "ok" THEN [s EXCEPT !.err = e] ELSE s

Res(e, v) == [err |-> e, val |-> v]

\* The ? operator after a call that changes the index: G continues with the
\* index unless the call failed.
Then(s, G(_)) == IF s.err # "ok" THEN s ELSE G(s)

\* The ? operator after a call that returns a value r = [err, val] to code
\* that changes the index s: G continues with the value.
Try(s, r, G(_)) == IF r.err # "ok" THEN Fail(s, r.err) ELSE G(r.val)

\* The ? operator between calls that return values: an error is handed on.
Bind(r, G(_)) == IF r.err # "ok" THEN r ELSE G(r.val)

\* ------------------------------------------------------------ node page store
\* NodeFile::get / get_mut: the slice mmap[offset..offset+NODE_BLOCK_SIZE]
\* panics when it ends beyond the mapping.
NodeFile_get_panics(nf, node_id) ==
    NODE_BLOCK_ALIGNED_SIZE * node_id + NODE_BLOCK_SIZE > nf.mmap_len

NodeFile_get(nf, node_id) ==
    IF node_id \in DOMAIN nf.pages THEN nf.pages[node_id] ELSE ZeroPage

WritePage(s, node_id, page) ==
    [s EXCEPT !.nodes.pages =
        [n \in (DOMAIN s.nodes.pages) \cup {node_id} |->
            IF n = node_id THEN page ELSE s.nodes.pages[n]]]

NodeFile_grow(nf, requested_size) ==
    IF requested_size <= nf.mmap_len THEN nf
    ELSE [nf EXCEPT !.mmap_len = Max(requested_size, nf.mmap_len * 2)]

NodeFile_with_capacity(capacity) ==
    [free_space_offset |-> 0,
     mmap_len |-> Max(capacity, 1) * NODE_BLOCK_ALIGNED_SIZE,
     pages |-> [n \in {} |-> ZeroPage]]

\* Mutant: the leaf flag of a new page is left at the zero of the mapping.
init_new_node_without_leaf_flag(s, new_offset, result) ==
    IF NodeFile_get_panics(s.nodes, result) THEN Fail(s, "panic")
    ELSE [WritePage(s, result,
             [NodeFile_get(s.nodes, result) EXCEPT
                 !.id = result, !.num_keys = 0, !.is_leaf = 0])
          EXCEPT !.nodes.free_space_offset = new_offset,
                 !.new_node = result]

\* The body of allocate_new_node once the mapping has grown: s holds the
\* grown mapping, result is the id of the new page.
init_new_node(s, new_offset, result) ==
    IF NodeFile_get_panics(s.nodes, result) THEN Fail(s, "panic")
    ELSE [WritePage(s, result,
             [NodeFile_get(s.nodes, result) EXCEPT
                 !.id = result, !.num_keys = 0, !.is_leaf = 1])
          EXCEPT !.nodes.free_space_offset = new_offset,
                 !.new_node = result]

\* Mutant: the id returned is the byte offset of the page, not its number.
allocate_new_node_by_offset(s) ==
    IF s.err # "ok" THEN s
    ELSE init_new_node(
            [s EXCEPT !.nodes = NodeFile_grow(s.nodes,
                          s.nodes.free_space_offset + NODE_BLOCK_ALIGNED_SIZE)],
            s.nodes.free_space_offset + NODE_BLOCK_ALIGNED_SIZE,
            s.nodes.free_space_offset)

\* Returns the index record with field new_node set to the allocated id.
allocate_new_node(s) ==
    IF s.err # "ok" THEN s
    ELSE init_new_node(
            [s EXCEPT !.nodes = NodeFile_grow(s.nodes,
                          s.nodes.free_space_offset + NODE_BLOCK_ALIGNED_SIZE)],
            s.nodes.free_space_offset + NODE_BLOCK_ALIGNED_SIZE,
            s.nodes.free_space_offset \div NODE_BLOCK_ALIGNED_SIZE)

number_of_keys(nf, node_id) ==
    IF NodeFile_get_panics(nf, node_id) THEN Res("panic", 0)
    ELSE Res("ok", NodeFile_get(nf, node_id).num_keys)

is_leaf(nf, node_id) ==
    IF NodeFile_get_panics(nf, node_id) THEN Res("panic", FALSE)
    ELSE Res("ok", NodeFile_get(nf, node_id).is_leaf # 0)

number_of_children(nf, node_id) ==
    Bind(is_leaf(nf, node_id), LAMBDA l :
        IF ~l THEN Bind(number_of_keys(nf, node_id), LAMBDA n : Res("ok", n + 1))
        ELSE Res("ok", 0))

get_key(nf, node_id, i) ==
    IF NodeFile_get_panics(nf, node_id) THEN Res("panic", 0)
    ELSE With(NodeFile_get(nf, node_id), LAMBDA view :
            IF i < view.num_keys /\ i < MAX_NUMBER_KEYS
            THEN Res("ok", Slot(view.keys, i))
            ELSE Res("KeyIndexOutOfBounds", 0))

set_key(s, node_id, i, key) ==
    IF s.err # "ok" THEN s
    ELSE IF NodeFile_get_panics(s.nodes, node_id) THEN Fail(s, "panic")
    ELSE With(NodeFile_get(s.nodes, node_id), LAMBDA view :
            IF i <= view.num_keys /\ i < MAX_NUMBER_KEYS
            THEN WritePage(s, node_id,
                    [view EXCEPT !.keys = SetSlot(view.keys, i, key),
                                 !.num_keys = IF i = view.num_keys
                                              THEN view.num_keys + 1
                                              ELSE view.num_keys])
            ELSE Fail(s, "KeyIndexOutOfBounds"))

get_payload(nf, node_id, i) ==
    IF NodeFile_get_panics(nf, node_id) THEN Res("panic", 0)
    ELSE With(NodeFile_get(nf, node_id), LAMBDA view :
            IF i < view.num_keys /\ i < MAX_NUMBER_KEYS
            THEN Res("ok", Slot(view.payloads, i))
            ELSE Res("KeyIndexOutOfBounds", 0))

set_payload(s, node_id, i, value) ==
    IF s.err # "ok" THEN s
    ELSE IF NodeFile_get_panics(s.nodes, node_id) THEN Fail(s, "panic")
    ELSE With(NodeFile_get(s.nodes, node_id), LAMBDA view :
            IF i < view.num_keys /\ i < MAX_NUMBER_KEYS
            THEN WritePage(s, node_id,
                    [view EXCEPT !.payloads = SetSlot(view.payloads, i, value)])
            ELSE Fail(s, "KeyIndexOutOfBounds"))

get_child_node(nf, node_id, i) ==
    IF NodeFile_get_panics(nf, node_id) THEN Res("panic", 0)
    ELSE With(NodeFile_get(nf, node_id), LAMBDA view :
            IF view.is_leaf = 0 /\ i < view.num_keys + 1 /\ i < MAX_NUMBER_CHILD_NODES
            THEN Res("ok", Slot(view.child_nodes, i))
            ELSE Res("KeyIndexOutOfBounds", 0))

\* Mutant: the index is compared with the child count only, not with the
\* length of the slot array.
set_child_node_uncapped(s, node_id, i, value) ==
    IF s.err # "ok" THEN s
    ELSE IF NodeFile_get_panics(s.nodes, node_id) THEN Fail(s, "panic")
    ELSE With(NodeFile_get(s.nodes, node_id), LAMBDA view :
            IF i <= (IF view.is_leaf = 0 THEN view.num_keys + 1 ELSE 0)
            THEN WritePage(s, node_id,
                    [view EXCEPT !.child_nodes = SetSlot(view.child_nodes, i, value),
                                 !.is_leaf = 0])
            ELSE Fail(s, "KeyIndexOutOfBounds"))

set_child_node(s, node_id, i, value) ==
    IF s.err # "ok" THEN s
    ELSE IF NodeFile_get_panics(s.nodes, node_id) THEN Fail(s, "panic")
    ELSE With(NodeFile_get(s.nodes, node_id), LAMBDA view :
            IF i <= (IF view.is_leaf = 0 THEN view.num_keys + 1 ELSE 0)
               /\ i < MAX_NUMBER_CHILD_NODES
            THEN WritePage(s, node_id,
                    [view EXCEPT !.child_nodes = SetSlot(view.child_nodes, i, value),
                                 !.is_leaf = 0])
            ELSE Fail(s, "KeyIndexOutOfBounds"))

\* SearchResult: [found |-> TRUE, i] is Found(i), [found |-> FALSE, i] NotFound(i).
\* get_key(..).unwrap() panics on an error.
RECURSIVE binary_search_loop(_, _, _, _, _, _)
binary_search_loop(nf, node_id, key, size, left, right) ==
    IF ~(left < right) THEN Res("ok", [found |-> FALSE, i |-> left])
    ELSE With(left + size \div 2, LAMBDA mid :
         With(get_key(nf, node_id, mid), LAMBDA mid_key :
            IF mid_key.err # "ok" THEN Res("panic", [found |-> FALSE, i |-> 0])
            ELSE IF mid_key.val < key
                 THEN binary_search_loop(nf, node_id, key, right - (mid + 1), mid + 1, right)
            ELSE IF mid_key.val > key
                 THEN binary_search_loop(nf, node_id, key, mid - left, left, mid)
            ELSE Res("ok", [found |-> TRUE, i |-> mid])))

\* Mutant: the search stops one slot before the last key.
binary_search_short(nf, node_id, key) ==
    With(number_of_keys(nf, node_id), LAMBDA n :
        With(IF n.err = "ok" THEN n.val ELSE 0, LAMBDA size :
            binary_search_loop(nf, node_id, key, size, 0, size - 1)))

\* number_of_keys(node_id).unwrap_or(0)
binary_search(nf, node_id, key) ==
    With(number_of_keys(nf, node_id), LAMBDA n :
        With(IF n.err = "ok" THEN n.val ELSE 0, LAMBDA size :
            binary_search_loop(nf, node_id, key, size, 0, size)))

\* for i in split_at..n: copy key and payload i of the source to slot
\* i - split_at of the target.
RECURSIVE split_off_keys(_, _, _, _, _, _)
split_off_keys(s, source_node_id, target_node_id, split_at, i, n) ==
    IF s.err # "ok" \/ i >= n THEN s
    ELSE Try(s, get_key(s.nodes, source_node_id, i), LAMBDA k :
         Then(set_key(s, target_node_id, i - split_at, k), LAMBDA s1 :
         Try(s1, get_payload(s1.nodes, source_node_id, i), LAMBDA p :
            split_off_keys(set_payload(s1, target_node_id, i - split_at, p),
                           source_node_id, target_node_id, split_at, i + 1, n))))

\* for i in split_at..number_of_children(source): copy child i.
RECURSIVE split_off_children(_, _, _, _, _, _)
split_off_children(s, source_node_id, target_node_id, split_at, i, n) ==
    IF s.err # "ok" \/ i >= n THEN s
    ELSE Try(s, get_child_node(s.nodes, source_node_id, i), LAMBDA c :
            split_off_children(set_child_node(s, target_node_id, i - split_at, c),
                               source_node_id, target_node_id, split_at, i + 1, n))

\* Writes num_keys through get_mut(node_id).
write_num_keys(s, node_id, n) ==
    IF s.err # "ok" THEN s
    ELSE IF NodeFile_get_panics(s.nodes, node_id) THEN Fail(s, "panic")
    ELSE WritePage(s, node_id, [NodeFile_get(s.nodes, node_id) EXCEPT !.num_keys = n])

\* Mutant: the children of an internal source node are not copied, the
\* target stays a leaf.
split_off_into_without_children(s, source_node_id, target_node_id, split_at, n) ==
    Then(split_off_keys(s, source_node_id, target_node_id, split_at, split_at, n),
         LAMBDA s2 :
    Then(write_num_keys(s2, source_node_id, split_at), LAMBDA s4 :
        [s4 EXCEPT !.new_node = target_node_id]))

\* The part of split_off after allocate_new_node: the upper keys, payloads
\* and children are copied and the source is clipped.
split_off_into(s, source_node_id, target_node_id, split_at, n) ==
    Then(split_off_keys(s, source_node_id, target_node_id, split_at, split_at, n),
         LAMBDA s2 :
    Try(s2, is_leaf(s2.nodes, source_node_id), LAMBDA l :
    Then(IF l THEN s2
         ELSE Try(s2, number_of_children(s2.nodes, source_node_id), LAMBDA nc :
                 split_off_children(s2, source_node_id, target_node_id,
                                    split_at, split_at, nc)),
         LAMBDA s3 :
    Then(write_num_keys(s3, source_node_id, split_at), LAMBDA s4 :
        [s4 EXCEPT !.new_node = target_node_id]))))

\* Returns the record with new_node set to the id of the target node.
split_off(s, source_node_id, split_at) ==
    IF s.err # "ok" THEN s
    ELSE Try(s, number_of_keys(s.nodes, source_node_id), LAMBDA n :
            IF split_at < n
            THEN Then(allocate_new_node(s), LAMBDA s1 :
                    split_off_into(s1, source_node_id, s1.new_node, split_at, n))
            ELSE Fail(s, "KeyIndexOutOfBounds"))

\* Mutant: the shift moves the keys and leaves the payloads where they were.
RECURSIVE shift_keys_right_keys_only(_, _, _, _)
shift_keys_right_keys_only(s, node_id, i, lo) ==
    IF s.err # "ok" \/ i < lo THEN s
    ELSE Try(s, get_key(s.nodes, node_id, i - 1), LAMBDA k :
            shift_keys_right_keys_only(set_key(s, node_id, i, k), node_id, i - 1, lo))

\* for i in ((lo)..=hi).rev(): key and payload i-1 move to slot i.
RECURSIVE shift_keys_right(_, _, _, _)
shift_keys_right(s, node_id, i, lo) ==
    IF s.err # "ok" \/ i < lo THEN s
    ELSE Try(s, get_key(s.nodes, node_id, i - 1), LAMBDA k :
         Then(set_key(s, node_id, i, k), LAMBDA s1 :
         Try(s1, get_payload(s1.nodes, node_id, i - 1), LAMBDA p :
            shift_keys_right(set_payload(s1, node_id, i, p), node_id, i - 1, lo))))

RECURSIVE shift_children_right(_, _, _, _)
shift_children_right(s, node_id, i, lo) ==
    IF s.err # "ok" \/ i < lo THEN s
    ELSE Try(s, get_child_node(s.nodes, node_id, i - 1), LAMBDA c :
            shift_children_right(set_child_node(s, node_id, i, c), node_id, i - 1, lo))

\* Mutant: the id of the new node is written over the child that was split.
insert_split_entry_over_child(s, parent_node_id, child_idx, split_key, split_payload, new_node_id) ==
    Try(s, number_of_keys(s.nodes, parent_node_id), LAMBDA pn :
    Then(shift_keys_right(s, parent_node_id, pn, child_idx + 1), LAMBDA s3 :
    Try(s3, number_of_children(s3.nodes, parent_node_id), LAMBDA pc :
    Then(shift_children_right(s3, parent_node_id, pc, child_idx + 1), LAMBDA s4 :
    Then(set_key(s4, parent_node_id, child_idx, split_key), LAMBDA s5 :
    Then(set_payload(s5, parent_node_id, child_idx, split_payload), LAMBDA s6 :
        set_child_node(s6, parent_node_id, child_idx, new_node_id)))))))

\* The part of split_child that makes space in the parent and inserts the
\* key, the payload and the new child.
insert_split_entry(s, parent_node_id, child_idx, split_key, split_payload, new_node_id) ==
    Try(s, number_of_keys(s.nodes, parent_node_id), LAMBDA pn :
    Then(shift_keys_right(s, parent_node_id, pn, child_idx + 1), LAMBDA s3 :
    Try(s3, number_of_children(s3.nodes, parent_node_id), LAMBDA pc :
    Then(shift_children_right(s3, parent_node_id, pc, child_idx + 1), LAMBDA s4 :
    Then(set_key(s4, parent_node_id, child_idx, split_key), LAMBDA s5 :
    Then(set_payload(s5, parent_node_id, child_idx, split_payload), LAMBDA s6 :
        set_child_node(s6, parent_node_id, child_idx + 1, new_node_id)))))))

\* Mutant: the median key moves to the parent without its payload, and the
\* slot keeps payload 0.
split_child_without_payload(s, parent_node_id, child_idx, split_at) ==
    IF s.err # "ok" THEN s
    ELSE Try(s, get_child_node(s.nodes, parent_node_id, child_idx),
             LAMBDA existing_node :
         Then(split_off(s, existing_node, split_at), LAMBDA s1 :
         Try(s1, get_key(s1.nodes, existing_node, split_at - 1), LAMBDA split_key :
         Then(write_num_keys(s1, existing_node, split_at - 1), LAMBDA s2 :
         Then(insert_split_entry(s2, parent_node_id, child_idx, split_key,
                                 0, s1.new_node), LAMBDA s7 :
            [s7 EXCEPT !.split_left = existing_node,
                       !.split_right = s1.new_node])))))

\* Returns the record with split_left, split_right set to
\* (existing_node, new_node_id).
split_child(s, parent_node_id, child_idx, split_at) ==
    IF s.err # "ok" THEN s
    ELSE Try(s, get_child_node(s.nodes, parent_node_id, child_idx),
             LAMBDA existing_node :
         Then(split_off(s, existing_node, split_at), LAMBDA s1 :
         Try(s1, get_key(s1.nodes, existing_node, split_at - 1), LAMBDA split_key :
         Try(s1, get_payload(s1.nodes, existing_node, split_at - 1),
             LAMBDA split_payload :
         Then(write_num_keys(s1, existing_node, split_at - 1), LAMBDA s2 :
         Then(insert_split_entry(s2, parent_node_id, child_idx, split_key,
                                 split_payload, s1.new_node), LAMBDA s7 :
            [s7 EXCEPT !.split_left = existing_node,
                       !.split_right = s1.new_node]))))))

\* Mutant: the old root keeps the key that moves to the new root.
split_root_node_untruncated(s, old_root_id, split_at) ==
    IF s.err # "ok" THEN s
    ELSE Then(allocate_new_node(s), LAMBDA s0 :
         Then(split_off(s0, old_root_id, split_at), LAMBDA s1 :
         Try(s1, get_key(s1.nodes, old_root_id, split_at - 1), LAMBDA split_key :
         Try(s1, get_payload(s1.nodes, old_root_id, split_at - 1),
             LAMBDA split_payload :
         Then(write_num_keys(s1, old_root_id, split_at), LAMBDA s2 :
         Then(set_key(s2, s0.new_node, 0, split_key), LAMBDA s3 :
         Then(set_payload(s3, s0.new_node, 0, split_payload), LAMBDA s4 :
         Then(set_child_node(s4, s0.new_node, 0, old_root_id), LAMBDA s5 :
         Then(set_child_node(s5, s0.new_node, 1, s1.new_node), LAMBDA s6 :
            [s6 EXCEPT !.new_node = s0.new_node])))))))))

\* Returns the record with new_node set to the id of the new root.
split_root_node(s, old_root_id, split_at) ==
    IF s.err # "ok" THEN s
    ELSE Then(allocate_new_node(s), LAMBDA s0 :
         Then(split_off(s0, old_root_id, split_at), LAMBDA s1 :
         Try(s1, get_key(s1.nodes, old_root_id, split_at - 1), LAMBDA split_key :
         Try(s1, get_payload(s1.nodes, old_root_id, split_at - 1),
             LAMBDA split_payload :
         Then(write_num_keys(s1, old_root_id, split_at - 1), LAMBDA s2 :
         Then(set_key(s2, s0.new_node, 0, split_key), LAMBDA s3 :
         Then(set_payload(s3, s0.new_node, 0, split_payload), LAMBDA s4 :
         Then(set_child_node(s4, s0.new_node, 0, old_root_id), LAMBDA s5 :
         Then(set_child_node(s5, s0.new_node, 1, s1.new_node), LAMBDA s6 :
            [s6 EXCEPT !.new_node = s0.new_node])))))))))

\* ------------------------------------------------------- variable tuple store
\* The serializer is bincode::DefaultOptions: little endian, variable-length
\* integer encoding.  An unsigned integer below 251 is one byte, one below
\* 2^16 is the marker 251 and two bytes, one below 2^32 the marker 252 and
\* four bytes.
serialize(v) ==
    IF v < 251 THEN <<v>>
    ELSE IF v < 65536 THEN <<251, v % 256, v \div 256>>
    ELSE <<252, v % 256, (v \div 256) % 256, (v \div 65536) % 256, v \div 16777216>>

serialized_size(v) == Len(serialize(v))

\* Fails on a short read and (DefaultOptions rejects trailing bytes) on a
\* long one.
deserialize(bytes) ==
    IF Len(bytes) = 0 THEN Res("Bincode", 0)
    ELSE IF bytes[1] < 251
         THEN IF Len(bytes) = 1 THEN Res("ok", bytes[1]) ELSE Res("Bincode", 0)
    ELSE IF bytes[1] = 251
         THEN IF Len(bytes) = 3 THEN Res("ok", bytes[2] + 256 * bytes[3])
              ELSE Res("Bincode", 0)
    ELSE IF bytes[1] = 252
         THEN IF Len(bytes) = 5
              THEN Res("ok", bytes[2] + 256 * bytes[3] + 65536 * bytes[4]
                             + 16777216 * bytes[5])
              ELSE Res("Bincode", 0)
    ELSE Res("Bincode", 0)

page_aligned_capacity(capacity) ==
    LET num_full_pages == (capacity \div PAGE_SIZE)
                          + (IF capacity % PAGE_SIZE # 0 THEN 1 ELSE 0)
    IN (num_full_pages * PAGE_SIZE) - BlockHeader_size

ZeroBlock == [capacity |-> 0, used |-> 0, data |-> <<>>]

TemporaryBlockFile_with_capacity(capacity, block_cache_size) ==
    [free_space_offset |-> 0,
     mmap_len |-> Max(capacity, 1),
     blocks |-> [b \in {} |-> ZeroBlock],
     relocated_blocks |-> [b \in {} |-> 0],
     cache |-> <<>>,
     block_cache_size |-> block_cache_size]

\* mmap[block_id..block_id+16] panics when it ends beyond the mapping.
block_header_panics(vf, block_id) == block_id + BlockHeader_size > vf.mmap_len

block_header(vf, block_id) ==
    IF block_id \in DOMAIN vf.blocks THEN vf.blocks[block_id] ELSE ZeroBlock

Relocated(vf, block_id) ==
    IF block_id \in DOMAIN vf.relocated_blocks
    THEN vf.relocated_blocks[block_id] ELSE block_id

WriteBlock(vf, block_id, block) ==
    [vf EXCEPT !.blocks =
        [b \in (DOMAIN vf.blocks) \cup {block_id} |->
            IF b = block_id THEN block ELSE vf.blocks[b]]]

grow(vf, requested_size) ==
    IF requested_size <= vf.mmap_len THEN vf
    ELSE [vf EXCEPT !.mmap_len = Max(requested_size, vf.mmap_len * 2)]

\* Mutant: the free offset advances by the capacity, without the header.
allocate_block_headerless(vf, capacity) ==
    With(grow(vf, vf.free_space_offset + BlockHeader_size + capacity), LAMBDA grown :
        IF block_header_panics(grown, vf.free_space_offset)
        THEN [err |-> "panic", val |-> 0, vf |-> grown]
        ELSE [err |-> "ok", val |-> vf.free_space_offset,
              vf |-> [WriteBlock(grown, vf.free_space_offset,
                         [capacity |-> capacity, used |-> 0,
                          data |-> block_header(grown, vf.free_space_offset).data])
                      EXCEPT !.free_space_offset = vf.free_space_offset + capacity]])

\* Returns [err, val, vf]: val is the id of the new block.
allocate_block(vf, capacity) ==
    With(grow(vf, vf.free_space_offset + BlockHeader_size + capacity), LAMBDA grown :
        IF block_header_panics(grown, vf.free_space_offset)
        THEN [err |-> "panic", val |-> 0, vf |-> grown]
        ELSE [err |-> "ok", val |-> vf.free_space_offset,
              vf |-> [WriteBlock(grown, vf.free_space_offset,
                         [capacity |-> capacity, used |-> 0,
                          data |-> block_header(grown, vf.free_space_offset).data])
                      EXCEPT !.free_space_offset =
                                 vf.free_space_offset + BlockHeader_size + capacity]])

\* The bytes of the block after new bytes were written over its start.
Overwrite(old, new) ==
    [j \in 1..Max(Len(old), Len(new)) |-> IF j <= Len(new) THEN new[j] ELSE old[j]]

CacheIndex(cache, block_id) ==
    IF \E j \in 1..Len(cache) : cache[j].id = block_id
    THEN CHOOSE j \in 1..Len(cache) : cache[j].id = block_id
    ELSE 0

CacheRemove(cache, j) ==
    [m \in 1..(Len(cache) - 1) |-> IF m < j THEN cache[m] ELSE cache[m + 1]]

\* LinkedHashMap::insert: an existing entry is replaced and becomes the
\* newest; the front of the sequence is the oldest entry.
CacheInsert(cache, block_id, v) ==
    With(CacheIndex(cache, block_id), LAMBDA j :
        Append(IF j = 0 THEN cache ELSE CacheRemove(cache, j),
               [id |-> block_id, val |-> v]))

\* Mutant: a hit leaves the entry where it is in the cache.
get_cached_entry_unmoved(vf, block_id, locked) ==
    With(CacheIndex(vf.cache, block_id), LAMBDA j :
        IF ~locked /\ j # 0
        THEN [hit |-> TRUE, val |-> vf.cache[j].val, vf |-> vf]
        ELSE [hit |-> FALSE, val |-> 0, vf |-> vf])

\* Returns [hit, val, vf]; locked: try_lock found the mutex held.
get_cached_entry(vf, block_id, locked) ==
    With(CacheIndex(vf.cache, block_id), LAMBDA j :
        IF ~locked /\ j # 0
        THEN [hit |-> TRUE, val |-> vf.cache[j].val,
              vf |-> [vf EXCEPT !.cache = CacheInsert(vf.cache, block_id, vf.cache[j].val)]]
        ELSE [hit |-> FALSE, val |-> 0, vf |-> vf])

read_block(vf, block_id) ==
    IF block_header_panics(vf, block_id) THEN Res("panic", 0)
    ELSE With(block_header(vf, block_id), LAMBDA header :
            IF block_id + BlockHeader_size + header.used > vf.mmap_len
            THEN Res("panic", 0)
            ELSE deserialize([j \in 1..header.used |->
                                 IF j <= Len(header.data) THEN header.data[j] ELSE 0]))

\* Returns [err, val, vf].
get_owned(vf, block_id, locked) ==
    With(Relocated(vf, block_id), LAMBDA id :
    With(get_cached_entry(vf, id, locked), LAMBDA c :
        IF c.hit THEN [err |-> "ok", val |-> c.val, vf |-> c.vf]
        ELSE With(read_block(vf, id), LAMBDA r :
                [err |-> r.err, val |-> r.val, vf |-> vf])))

\* Returns [err, fits, size].
can_update(vf, block_id, block) ==
    With(Relocated(vf, block_id), LAMBDA id :
        IF block_header_panics(vf, id) THEN [err |-> "panic", fits |-> FALSE, size |-> 0]
        ELSE [err |-> "ok",
              fits |-> serialized_size(block) <= block_header(vf, id).capacity,
              size |-> serialized_size(block)])

\* The part of put after the block to write was chosen: the header gets the
\* new size, the value is serialized into the block and enters the cache,
\* whose oldest entry leaves when the cache is over its size.
write_block(vf1, id, block, new_used_size) ==
    IF block_header_panics(vf1, id) THEN [err |-> "panic", vf |-> vf1]
    ELSE With(block_header(vf1, id), LAMBDA header :
         With(serialize(block), LAMBDA bytes :
            IF id + BlockHeader_size + header.capacity > vf1.mmap_len
            THEN [err |-> "panic", vf |-> vf1]
            ELSE IF Len(bytes) > header.capacity
            THEN [err |-> "Bincode",
                  vf |-> WriteBlock(vf1, id, [header EXCEPT !.used = new_used_size])]
            ELSE With(WriteBlock(vf1, id,
                         [header EXCEPT !.used = new_used_size,
                                        !.data = Overwrite(header.data, bytes)]),
                      LAMBDA vf2 :
                 With(CacheInsert(vf2.cache, id, block), LAMBDA c1 :
                    [err |-> "ok",
                     vf |-> [vf2 EXCEPT !.cache =
                                IF Len(c1) > vf2.block_cache_size
                                THEN Tail(c1) ELSE c1]]))))

\* Returns [err, vf].
put(vf, block_id, block) ==
    With(Relocated(vf, block_id), LAMBDA relocated_block_id :
    With(can_update(vf, relocated_block_id, block), LAMBDA cu :
        IF cu.err # "ok" THEN [err |-> cu.err, vf |-> vf]
        ELSE IF cu.fits THEN write_block(vf, relocated_block_id, block, cu.size)
        ELSE With(allocate_block(vf, page_aligned_capacity(cu.size * 2)), LAMBDA a :
                IF a.err # "ok" THEN [err |-> a.err, vf |-> a.vf]
                ELSE write_block(
                        [a.vf EXCEPT !.relocated_blocks =
                            [b \in (DOMAIN a.vf.relocated_blocks) \cup {block_id} |->
                                IF b = block_id THEN a.val
                                ELSE a.vf.relocated_blocks[b]]],
                        a.val, block, cu.size))))

\* ------------------------------------------------------------- B-tree engine
None == [some |-> FALSE, v |-> 0]
Some(v) == [some |-> TRUE, v |-> v]

\* The fields of a fresh index before its root is allocated.  err, ret,
\* new_node, split_left and split_right carry the outcome of the last call.
empty_index(config, capacity) ==
    [nodes |-> NodeFile_with_capacity(capacity),
     values |-> TemporaryBlockFile_with_capacity(
                   capacity * (config.value_size + BlockHeader_size),
                   config.block_cache_size),
     root_id |-> 0, last_inserted_node_id |-> 0,
     order |-> config.order, nr_elements |-> 0,
     err |-> "ok", ret |-> None,
     new_node |-> 0, split_left |-> 0, split_right |-> 0]

\* Mutant: only the order 0 is too small.
with_capacity_accepts_one(config, capacity) ==
    IF config.order < 1 THEN Fail(empty_index(config, capacity), "OrderTooSmall")
    ELSE IF config.order > MAX_NUMBER_KEYS \div 2
         THEN Fail(empty_index(config, capacity), "OrderTooLarge")
    ELSE Then(allocate_new_node(empty_index(config, capacity)), LAMBDA s1 :
            [s1 EXCEPT !.root_id = s1.new_node,
                       !.last_inserted_node_id = s1.new_node])

\* Mutant: the order MAX_NUMBER_KEYS / 2 is rejected as too large.
with_capacity_rejects_half(config, capacity) ==
    IF config.order < 2 THEN Fail(empty_index(config, capacity), "OrderTooSmall")
    ELSE IF config.order >= MAX_NUMBER_KEYS \div 2
         THEN Fail(empty_index(config, capacity), "OrderTooLarge")
    ELSE Then(allocate_new_node(empty_index(config, capacity)), LAMBDA s1 :
            [s1 EXCEPT !.root_id = s1.new_node,
                       !.last_inserted_node_id = s1.new_node])

\* config: [order, value_size, block_cache_size]; value_size is the n of
\* TypeSize::Estimated(n).
with_capacity(config, capacity) ==
    IF config.order < 2 THEN Fail(empty_index(config, capacity), "OrderTooSmall")
    ELSE IF config.order > MAX_NUMBER_KEYS \div 2
         THEN Fail(empty_index(config, capacity), "OrderTooLarge")
    ELSE Then(allocate_new_node(empty_index(config, capacity)), LAMBDA s1 :
            [s1 EXCEPT !.root_id = s1.new_node,
                       !.last_inserted_node_id = s1.new_node])

\* The result [err, found, node, i] of search: Ok(Some((node, i))),
\* Ok(None) or Err(err).
SearchFound(node, i) == [err |-> "ok", found |-> TRUE, node |-> node, i |-> i]
SearchNone == [err |-> "ok", found |-> FALSE, node |-> 0, i |-> 0]
SearchErr(e) == [err |-> e, found |-> FALSE, node |-> 0, i |-> 0]

\* The ? operator inside search.
SearchTry(r, G(_)) == IF r.err # "ok" THEN SearchErr(r.err) ELSE G(r.val)

\* Mutant: the search stops at the node it is given and never descends.
search_no_descent(nf, node_id, key) ==
    SearchTry(binary_search(nf, node_id, key), LAMBDA r :
        IF r.found THEN SearchFound(node_id, r.i) ELSE SearchNone)

RECURSIVE search(_, _, _)
search(nf, node_id, key) ==
    SearchTry(binary_search(nf, node_id, key), LAMBDA r :
        IF r.found THEN SearchFound(node_id, r.i)
        ELSE SearchTry(is_leaf(nf, node_id), LAMBDA l :
                IF l THEN SearchNone
                ELSE SearchTry(get_child_node(nf, node_id, r.i), LAMBDA child_node_id :
                        search(nf, child_node_id, key))))

\* Returns [err, ret, vf]: ret is the Option, vf the value store afterwards
\* (a cache hit re-orders the block cache).
get(s, key, locked) ==
    With(search(s.nodes, s.root_id, key), LAMBDA f :
        IF f.err # "ok" THEN [err |-> f.err, ret |-> None, vf |-> s.values]
        ELSE IF ~f.found THEN [err |-> "ok", ret |-> None, vf |-> s.values]
        ELSE With(get_payload(s.nodes, f.node, f.i), LAMBDA p :
                IF p.err # "ok" THEN [err |-> p.err, ret |-> None, vf |-> s.values]
                ELSE With(get_owned(s.values, p.val, locked), LAMBDA v :
                        IF v.err # "ok" THEN [err |-> v.err, ret |-> None, vf |-> v.vf]
                        ELSE [err |-> "ok", ret |-> Some(v.val), vf |-> v.vf])))

\* Returns [err, val].
contains_key(s, key) ==
    With(search(s.nodes, s.root_id, key), LAMBDA f : Res(f.err, f.found))

is_empty(s) == s.nr_elements = 0

len(s) == s.nr_elements

\* Mutant: an overwrite counts as a new element.
replace_payload_counting(s, node_id, i, value) ==
    Try(s, get_payload(s.nodes, node_id, i), LAMBDA payload_id :
    With(get_owned(s.values, payload_id, FALSE), LAMBDA previous_payload :
    With(put(previous_payload.vf, payload_id, value), LAMBDA w :
        [s EXCEPT !.values = w.vf,
                  !.last_inserted_node_id = node_id,
                  !.nr_elements = s.nr_elements + 1,
                  !.ret = Some(previous_payload.val)])))

\* Mutant: an overwrite returns the previous value and writes nothing.
replace_payload_unwritten(s, node_id, i, value) ==
    Try(s, get_payload(s.nodes, node_id, i), LAMBDA payload_id :
    With(get_owned(s.values, payload_id, FALSE), LAMBDA previous_payload :
        [s EXCEPT !.values = previous_payload.vf,
                  !.last_inserted_node_id = node_id,
                  !.ret = Some(previous_payload.val)]))

\* The Found arm of insert_nonfull and its twin after a split: replace the
\* payload of slot (node_id, i) and return the previous value.
replace_payload(s, node_id, i, value) ==
    Try(s, get_payload(s.nodes, node_id, i), LAMBDA payload_id :
    With(get_owned(s.values, payload_id, FALSE), LAMBDA previous_payload :
        IF previous_payload.err # "ok"
        THEN Fail([s EXCEPT !.values = previous_payload.vf], previous_payload.err)
        ELSE With(put(previous_payload.vf, payload_id, value), LAMBDA w :
                IF w.err # "ok" THEN Fail([s EXCEPT !.values = w.vf], w.err)
                ELSE [s EXCEPT !.values = w.vf,
                               !.last_inserted_node_id = node_id,
                               !.ret = Some(previous_payload.val)])))

\* The part of the leaf arm after the value was stored in block payload_id:
\* the larger keys move to the right and the new entry takes slot i.
insert_leaf_entry(s1, node_id, i, key, payload_id) ==
    Try(s1, number_of_keys(s1.nodes, node_id), LAMBDA number_of_node_keys :
    Then(shift_keys_right(s1, node_id, number_of_node_keys, i + 1), LAMBDA s2 :
    Then(set_key(s2, node_id, i, key), LAMBDA s3 :
    Then(set_payload(s3, node_id, i, payload_id), LAMBDA s4 :
        [s4 EXCEPT !.nr_elements = s4.nr_elements + 1,
                   !.last_inserted_node_id = node_id,
                   !.ret = None]))))

\* The leaf arm of insert_nonfull.
insert_into_leaf(s, node_id, i, key, value) ==
    With(allocate_block(s.values, serialized_size(value)), LAMBDA a :
        IF a.err # "ok" THEN Fail([s EXCEPT !.values = a.vf], a.err)
        ELSE With(put(a.vf, a.val, value), LAMBDA w :
                IF w.err # "ok" THEN Fail([s EXCEPT !.values = w.vf], w.err)
                ELSE insert_leaf_entry([s EXCEPT !.values = w.vf],
                                       node_id, i, key, a.val)))

RECURSIVE insert_nonfull(_, _, _, _)
insert_nonfull(s, node_id, key, value) ==
    IF s.err # "ok" THEN s
    ELSE Try(s, binary_search(s.nodes, node_id, key), LAMBDA r :
        IF r.found THEN replace_payload(s, node_id, r.i, value)
        ELSE Try(s, is_leaf(s.nodes, node_id), LAMBDA l :
            IF l THEN insert_into_leaf(s, node_id, r.i, key, value)
            ELSE Try(s, get_child_node(s.nodes, node_id, r.i), LAMBDA child_id :
                 Try(s, number_of_keys(s.nodes, child_id), LAMBDA cn :
                    IF cn = (2 * s.order) - 1
                    THEN Then(split_child(s, node_id, r.i, s.order), LAMBDA s1 :
                         Try(s1, get_key(s1.nodes, node_id, r.i), LAMBDA node_key :
                            IF key = node_key
                            THEN replace_payload(s1, node_id, r.i, value)
                            ELSE IF key > node_key
                            THEN insert_nonfull(s1, s1.split_right, key, value)
                            ELSE insert_nonfull(s1, s1.split_left, key, value)))
                    ELSE insert_nonfull(s, child_id, key, value)))))

\* number_of_keys(node_id).unwrap_or(0)
number_of_keys_or_0(nf, node_id) ==
    With(number_of_keys(nf, node_id), LAMBDA n : IF n.err = "ok" THEN n.val ELSE 0)

\* The second half of insert: the descent from the root, which is split
\* first when it is full.
insert_from_root(s, key, value) ==
    IF number_of_keys_or_0(s.nodes, s.root_id) = (2 * s.order) - 1
    THEN Then(split_root_node(s, s.root_id, s.order), LAMBDA s1 :
         Then(insert_nonfull(s1, s1.new_node, key, value), LAMBDA s2 :
            [s2 EXCEPT !.root_id = s1.new_node]))
    ELSE insert_nonfull(s, s.root_id, key, value)

\* Mutant: the last inserted node is used for every key from its first key
\* on, also for keys above its last key.
insert_above_last_key(s, key, value) ==
    With(number_of_keys_or_0(s.nodes, s.last_inserted_node_id),
         LAMBDA last_inserted_number_keys :
        IF last_inserted_number_keys > 0
        THEN Try(s, get_key(s.nodes, s.last_inserted_node_id, 0), LAMBDA start :
                IF key >= start
                   /\ last_inserted_number_keys < (2 * s.order) - 1
                THEN insert_nonfull(s, s.last_inserted_node_id, key, value)
                ELSE insert_from_root(s, key, value))
        ELSE insert_from_root(s, key, value))

\* Mutant: the last inserted node is used without asking whether it is full.
insert_into_full_last_node(s, key, value) ==
    With(number_of_keys_or_0(s.nodes, s.last_inserted_node_id),
         LAMBDA last_inserted_number_keys :
        IF last_inserted_number_keys > 0
        THEN Try(s, get_key(s.nodes, s.last_inserted_node_id, 0), LAMBDA start :
             Try(s, get_key(s.nodes, s.last_inserted_node_id,
                            last_inserted_number_keys - 1), LAMBDA end :
                IF key >= start /\ key <= end
                THEN insert_nonfull(s, s.last_inserted_node_id, key, value)
                ELSE insert_from_root(s, key, value)))
        ELSE insert_from_root(s, key, value))

\* Returns the index afterwards; ret is the Option returned.
insert(s, key, value) ==
    With(number_of_keys_or_0(s.nodes, s.last_inserted_node_id),
         LAMBDA last_inserted_number_keys :
        IF last_inserted_number_keys > 0
        THEN Try(s, get_key(s.nodes, s.last_inserted_node_id, 0), LAMBDA start :
             Try(s, get_key(s.nodes, s.last_inserted_node_id,
                            last_inserted_number_keys - 1), LAMBDA end :
                IF key >= start /\ key <= end
                   /\ last_inserted_number_keys < (2 * s.order) - 1
                THEN insert_nonfull(s, s.last_inserted_node_id, key, value)
                ELSE insert_from_root(s, key, value)))
        ELSE insert_from_root(s, key, value))

\* Mutant: both slots receive the payload of b.
swap_copies_b(s, a, b) ==
    With(search(s.nodes, s.root_id, a), LAMBDA fa :
    With(search(s.nodes, s.root_id, b), LAMBDA fb :
        IF ~fa.found \/ ~fb.found THEN Fail(s, "NonExistingKey")
        ELSE Try(s, get_payload(s.nodes, fb.node, fb.i), LAMBDA b_payload :
                set_payload(set_payload(s, fa.node, fa.i, b_payload),
                            fb.node, fb.i, b_payload))))

\* Mutant: a swap with an absent second key succeeds and does nothing.
swap_ignores_absent_b(s, a, b) ==
    With(search(s.nodes, s.root_id, a), LAMBDA fa :
    With(search(s.nodes, s.root_id, b), LAMBDA fb :
        IF ~fa.found THEN Fail(s, "NonExistingKey")
        ELSE IF ~fb.found THEN s
        ELSE Try(s, get_payload(s.nodes, fa.node, fa.i), LAMBDA a_payload :
             Try(s, get_payload(s.nodes, fb.node, fb.i), LAMBDA b_payload :
                set_payload(set_payload(s, fa.node, fa.i, b_payload),
                            fb.node, fb.i, a_payload)))))

\* Returns the index afterwards; err is "NonExistingKey" when a key is absent.
swap(s, a, b) ==
    With(search(s.nodes, s.root_id, a), LAMBDA fa :
        IF fa.err # "ok" THEN Fail(s, fa.err)
        ELSE IF ~fa.found THEN Fail(s, "NonExistingKey")
        ELSE With(search(s.nodes, s.root_id, b), LAMBDA fb :
            IF fb.err # "ok" THEN Fail(s, fb.err)
            ELSE IF ~fb.found THEN Fail(s, "NonExistingKey")
            ELSE Try(s, get_payload(s.nodes, fa.node, fa.i), LAMBDA a_payload :
                 Try(s, get_payload(s.nodes, fb.node, fb.i), LAMBDA b_payload :
                    set_payload(set_payload(s, fa.node, fa.i, b_payload),
                                fb.node, fb.i, a_payload)))))

\* ------------------------------------------------------------ range iteration
\* Bound: [kind |-> "Included" | "Excluded" | "Unbounded", key].
Included(k) == [kind |-> "Included", key |-> k]
Excluded(k) == [kind |-> "Excluded", key |-> k]
Unbounded == [kind |-> "Unbounded", key |-> 0]

\* StackEntry: Child {parent, idx} or Key {node, idx}.
Child(parent, idx) == [kind |-> "Child", node |-> parent, idx |-> idx]
Key(node, idx) == [kind |-> "Key", node |-> node, idx |-> idx]

\* if is_leaf(node_id)? { Key {node_id, i} } else { Child {node_id, i} }
key_or_child(nf, node_id, i) ==
    Bind(is_leaf(nf, node_id), LAMBDA l :
        IF l THEN Res("ok", Key(node_id, i)) ELSE Res("ok", Child(node_id, i)))

\* Mutant: an excluded start that is found starts at the found key itself.
find_first_candidate_at_excluded(nf, node_id, start_bound) ==
    IF start_bound.kind = "Unbounded" THEN key_or_child(nf, node_id, 0)
    ELSE Bind(binary_search(nf, node_id, start_bound.key), LAMBDA key_pos :
            IF key_pos.found THEN Res("ok", Key(node_id, key_pos.i))
            ELSE key_or_child(nf, node_id, key_pos.i))

\* Returns [err, val]; binary_search panics rather than fails.
find_first_candidate(nf, node_id, start_bound) ==
    IF start_bound.kind = "Unbounded" THEN key_or_child(nf, node_id, 0)
    ELSE Bind(binary_search(nf, node_id, start_bound.key), LAMBDA key_pos :
            IF start_bound.kind = "Included" /\ key_pos.found
            THEN Res("ok", Key(node_id, key_pos.i))
            ELSE key_or_child(nf, node_id,
                              IF key_pos.found THEN key_pos.i + 1 ELSE key_pos.i))

\* number_of_children(parent).unwrap_or(0)
number_of_children_or_0(nf, node_id) ==
    With(number_of_children(nf, node_id), LAMBDA nc :
        IF nc.err = "ok" THEN nc.val ELSE 0)

\* The item of the while loop of find_range is inside the range.
find_range_included(nf, item, end_bound) ==
    IF item.kind = "Child"
    THEN item.idx < number_of_children_or_0(nf, item.node)
    ELSE IF end_bound.kind = "Unbounded"
    THEN item.idx < number_of_keys_or_0(nf, item.node)
    ELSE With(get_key(nf, item.node, item.idx), LAMBDA key :
            /\ key.err = "ok"
            /\ IF end_bound.kind = "Included" THEN key.val <= end_bound.key
               ELSE key.val < end_bound.key)

\* is_leaf(node).unwrap_or(false)
find_range_next(nf, item) ==
    IF item.kind = "Child" THEN Key(item.node, item.idx)
    ELSE With(is_leaf(nf, item.node), LAMBDA l :
            IF l.err = "ok" /\ l.val THEN Key(item.node, item.idx + 1)
            ELSE Child(item.node, item.idx + 1))

RECURSIVE find_range_loop(_, _, _, _)
find_range_loop(nf, item, end_bound, result) ==
    IF find_range_included(nf, item, end_bound)
    THEN find_range_loop(nf, find_range_next(nf, item), end_bound, Append(result, item))
    ELSE result

\* Returns [err, val]: err is "panic" when a page access panics, val the
\* entries in ascending order.
find_range(nf, node_id, start_bound, end_bound) ==
    IF NodeFile_get_panics(nf, node_id) THEN Res("panic", <<>>)
    ELSE With(find_first_candidate(nf, node_id, start_bound), LAMBDA candidate :
            IF candidate.err # "ok" THEN Res("ok", <<>>)
            ELSE Res("ok", find_range_loop(nf, candidate.val, end_bound, <<>>)))

Reverse(seq) == [j \in 1..Len(seq) |-> seq[Len(seq) + 1 - j]]

\* Mutant: the entries found are pushed in ascending order, so the last one
\* is on top of the stack.
range_unreversed(s, start_bound, end_bound) ==
    With(find_range(s.nodes, s.root_id, start_bound, end_bound), LAMBDA f :
        [err |-> f.err, stack |-> f.val, start |-> start_bound, end |-> end_bound])

\* The iterator of range(): [stack, start, end]; the top of the stack is the
\* last element.
range(s, start_bound, end_bound) ==
    With(find_range(s.nodes, s.root_id, start_bound, end_bound), LAMBDA f :
        [err |-> f.err, stack |-> Reverse(f.val),
         start |-> start_bound, end |-> end_bound])

\* Returns [err, key, val, vf].
get_key_value_tuple(nf, vf, node, idx) ==
    With(get_payload(nf, node, idx), LAMBDA payload_id :
        IF payload_id.err # "ok"
        THEN [err |-> payload_id.err, key |-> 0, val |-> 0, vf |-> vf]
        ELSE With(get_owned(vf, payload_id.val, FALSE), LAMBDA value :
                IF value.err # "ok"
                THEN [err |-> value.err, key |-> 0, val |-> 0, vf |-> value.vf]
                ELSE With(get_key(nf, node, idx), LAMBDA key :
                        [err |-> key.err, key |-> key.val, val |-> value.val,
                         vf |-> value.vf])))

\* The result [done, err, item, stack, vf] of one call of Range::next.
NextErr(e, stack, vf) ==
    [done |-> FALSE, err |-> e, item |-> <<>>, stack |-> stack, vf |-> vf]

\* One call of Range::next: done is the None at the end, item the pair
\* <<key, value>> yielded.
RECURSIVE Range_next(_, _, _, _, _)
Range_next(nf, vf, stack, start_bound, end_bound) ==
    IF Len(stack) = 0
    THEN [done |-> TRUE, err |-> "ok", item |-> <<>>, stack |-> stack, vf |-> vf]
    ELSE With(stack[Len(stack)], LAMBDA e :
         With(SubSeq(stack, 1, Len(stack) - 1), LAMBDA rest :
            IF e.kind = "Child"
            THEN With(get_child_node(nf, e.node, e.idx), LAMBDA c :
                    IF c.err # "ok" THEN NextErr(c.err, rest, vf)
                    ELSE With(find_range(nf, c.val, start_bound, end_bound),
                              LAMBDA new_elements :
                            IF new_elements.err # "ok"
                            THEN NextErr(new_elements.err, rest, vf)
                            ELSE Range_next(nf, vf, rest \o Reverse(new_elements.val),
                                            start_bound, end_bound)))
            ELSE With(get_key_value_tuple(nf, vf, e.node, e.idx), LAMBDA kv :
                    [done |-> FALSE, err |-> kv.err, item |-> <<kv.key, kv.val>>,
                     stack |-> rest, vf |-> kv.vf])))

\* collect() of the iterator into Result<Vec<_>>: stops at the first error.
RECURSIVE collect(_, _, _, _, _, _)
collect(nf, vf, stack, start_bound, end_bound, acc) ==
    With(Range_next(nf, vf, stack, start_bound, end_bound), LAMBDA n :
        IF n.done THEN Res("ok", acc)
        ELSE IF n.err # "ok" THEN Res(n.err, acc)
        ELSE collect(nf, n.vf, n.stack, start_bound, end_bound, Append(acc, n.item)))

\* range(r).collect() on the index.
range_collect(s, start_bound, end_bound) ==
    With(range(s, start_bound, end_bound), LAMBDA it :
        IF it.err # "ok" THEN Res(it.err, <<>>)
        ELSE collect(s.nodes, s.values, it.stack, start_bound, end_bound, <<>>))

\* ------------------------------------------------------------- state machine
\* index  : the InlineKeyBtreeIndex (or NotBuilt before with_capacity)
\* config : the BtreeConfig and capacity given to with_capacity
\* model  : the reference ordered map that received the same inserts and swaps
\* ops    : number of insert and swap calls so far
\* last   : the last call, its arguments and its result
\* readers    : for each reader thread, the position of its get call
\* cache_lock : the thread that holds the mutex of the block cache, 0 if none
VARIABLES index, config, model, ops, last, readers, cache_lock

vars == <<index, config, model, ops, last, readers, cache_lock>>

NumThreads == 2
Threads == 1..NumThreads

\* A thread that is not inside a call.
Idle == [pc |-> "idle", key |-> 0, id |-> 0, ret |-> None, err |-> "ok"]

NoReaders == [t \in Threads |-> Idle]

NotBuilt == [err |-> "NotBuilt"]

NoCall == [op |-> "none", key |-> 0, key2 |-> 0, value |-> 0, ret |-> None, err |-> "ok"]

EmptyMap == [k \in {} |-> 0]

MapPut(m, k, v) == [x \in (DOMAIN m) \cup {k} |-> IF x = k THEN v ELSE m[x]]

\* The scratch fields that carry return values are cleared between calls.
Clean(s) == [s EXCEPT !.ret = None, !.new_node = 0, !.split_left = 0, !.split_right = 0]

\* The configurations the tree is explored under: the minimal order with a
\* block cache of one entry and no capacity hint, and order 3 with a cache of
\* two entries.
TreeConfigs ==
    {[order |-> 2, value_size |-> 1, block_cache_size |-> 1, capacity |-> 0],
     [order |-> 3, value_size |-> 1, block_cache_size |-> 2, capacity |-> 1]}

\* The value written by the n-th insert or swap call: n, which bincode encodes
\* in one byte, and BigValue + n, encoded in three, for every BigEvery-th call.
ValueOf(n) == IF n % BigEvery = 0 THEN BigValue + n ELSE n

Init ==
    /\ config \in TreeConfigs
    /\ index = Clean(with_capacity(config, config.capacity))
    /\ model = EmptyMap
    /\ ops = 0
    /\ last = NoCall
    /\ readers = NoReaders
    /\ cache_lock = 0

InsertCall(key, max_ops) ==
    /\ index.err = "ok"
    /\ ops < max_ops
    /\ \E r \in {insert(index, key, ValueOf(ops + 1))} :
          /\ index' = Clean(r)
          /\ model' = MapPut(model, key, ValueOf(ops + 1))
          /\ last' = [op |-> "insert", key |-> key, key2 |-> 0,
                      value |-> ValueOf(ops + 1), ret |-> r.ret, err |-> r.err]
    /\ ops' = ops + 1
    /\ UNCHANGED <<config, readers, cache_lock>>

Insert == \E key \in Keys : InsertCall(key, MaxOps)

\* get(&self): the result is not kept, the block cache is re-ordered by a hit.
Get ==
    /\ index.err = "ok"
    /\ \E key \in Keys :
          \E r \in {get(index, key, FALSE)} :
             index' = [index EXCEPT !.values = r.vf, !.err = r.err]
    /\ UNCHANGED <<config, model, ops, last, readers, cache_lock>>

Next == Insert \/ Get

Spec == Init /\ [][Next]_vars

\* swap(a, b): a NonExistingKey error is returned to the caller and leaves
\* the index usable; the reference map exchanges the two values when both
\* keys are stored.
MapSwap(m, a, b) ==
    IF a \in DOMAIN m /\ b \in DOMAIN m
    THEN [x \in DOMAIN m |-> IF x = a THEN m[b] ELSE IF x = b THEN m[a] ELSE m[x]]
    ELSE m

Swap ==
    /\ index.err = "ok"
    /\ ops < SwapOps
    /\ \E a \in Keys, b \in Keys :
          \E r \in {swap(index, a, b)} :
             /\ index' = Clean([r EXCEPT !.err = IF r.err = "NonExistingKey"
                                                  THEN "ok" ELSE r.err])
             /\ model' = MapSwap(model, a, b)
             /\ last' = [op |-> "swap", key |-> a, key2 |-> b, value |-> 0,
                         ret |-> None, err |-> r.err]
    /\ ops' = ops + 1
    /\ UNCHANGED <<config, readers, cache_lock>>

InsertBeforeSwap == \E key \in Keys : InsertCall(key, SwapInserts)

NextSwap == InsertBeforeSwap \/ Swap

SpecSwap == Init /\ [][NextSwap]_vars

\* Construction: with_capacity applied to a configuration of any order.
NewConfigs ==
    [order : 0..MaxOrderProbe, value_size : {1}, block_cache_size : {1, 16},
     capacity : 0..MaxCapacity]

InitNew ==
    /\ config \in NewConfigs
    /\ index = NotBuilt
    /\ model = EmptyMap
    /\ ops = 0
    /\ last = NoCall
    /\ readers = NoReaders
    /\ cache_lock = 0

New ==
    /\ index = NotBuilt
    /\ \E r \in {with_capacity(config, config.capacity)} :
          /\ index' = Clean(r)
          /\ last' = [op |-> "with_capacity", key |-> 0, key2 |-> 0, value |-> 0,
                      ret |-> None, err |-> r.err]
    /\ UNCHANGED <<config, model, ops, readers, cache_lock>>

NextNew == New

SpecNew == InitNew /\ [][NextNew]_vars

\* ------------------------------------------------------------ reference map
\* The pairs of the reference map with keys in lo..hi, in ascending key order.
RECURSIVE SortedPairs(_, _, _)
SortedPairs(m, lo, hi) ==
    IF lo > hi THEN <<>>
    ELSE IF lo \in DOMAIN m THEN <<(<<lo, m[lo]>>)>> \o SortedPairs(m, lo + 1, hi)
    ELSE SortedPairs(m, lo + 1, hi)

ModelGet(m, k) == IF k \in DOMAIN m THEN Some(m[k]) ELSE None

\* Keys asked for: the keys inserted and one below and one above them.
ProbeKeys == 0..(MaxKey + 1)

\* Number of node pages allocated so far.
AllocatedNodes == index.nodes.free_space_offset \div NODE_BLOCK_ALIGNED_SIZE

RootIsInternal == index.err = "ok" /\ ~is_leaf(index.nodes, index.root_id).val

\* -------------------------------------------------------------------- claims
\* C1: after any sequence of successful inserts, get(k) returns Some(v) for
\* every key k inserted at least once, where v is the value of the most
\* recent insert of k (whether or not the block cache can be locked).
C1_GetReflectsInserts ==
    index.err = "ok" =>
        \A k \in DOMAIN model : \A locked \in BOOLEAN :
            LET r == get(index, k, locked)
            IN r.err = "ok" /\ r.ret = Some(model[k])

\* C1 witness: an insert that overwrote a key has just returned in a tree of
\* order 2 whose root was split and one of whose leaves was split afterwards,
\* and every key of the key space is stored.
C1_Witness ==
    /\ index.err = "ok"
    /\ index.order = 2
    /\ RootIsInternal
    /\ AllocatedNodes >= 4
    /\ last.op = "insert" /\ last.ret.some
    /\ DOMAIN model = Keys
    /\ \A k \in Keys : get(index, k, FALSE).ret = Some(model[k])

\* C2: contains_key(k) is true exactly when get(k) is Some, and both are
\* negative exactly when k was never inserted, also on the empty index.
C2_MembershipAgrees ==
    index.err = "ok" =>
        \A k \in ProbeKeys :
            LET c == contains_key(index, k)
                g == get(index, k, FALSE)
            IN /\ c.err = "ok" /\ g.err = "ok"
               /\ c.val = g.ret.some
               /\ c.val = (k \in DOMAIN model)

\* C2 witness: a tree with an internal root in which some key of the key
\* space is stored in the root, some in a leaf and some is absent.
C2_Witness ==
    /\ RootIsInternal
    /\ \E k \in Keys : k \notin DOMAIN model /\ ~contains_key(index, k).val
    /\ \E k \in Keys : search(index.nodes, index.root_id, k).found
                       /\ search(index.nodes, index.root_id, k).node = index.root_id
    /\ \E k \in Keys : search(index.nodes, index.root_id, k).found
                       /\ search(index.nodes, index.root_id, k).node # index.root_id

C4_FullScanIsSortedModel ==
    index.err = "ok" =>
        LET r == range_collect(index, Unbounded, Unbounded)
        IN r.err = "ok" /\ r.val = SortedPairs(model, 0, MaxKey + 1)

\* C4 witness: a full scan of a tree of order 2 with an internal root and
\* at least four nodes yields all keys of the key space, one of them
\* overwritten.
C4_Witness ==
    /\ index.err = "ok"
    /\ index.order = 2
    /\ RootIsInternal
    /\ AllocatedNodes >= 4
    /\ len(index) < ops
    /\ Len(range_collect(index, Unbounded, Unbounded).val) = MaxKey

\* The keys ranges are bounded by: the even keys, each of them stored in
\* some runs and absent in others, below, between and above the stored keys.
BoundKeys == {k \in Keys : k % 2 = 0}

\* The bounds a range is built from: unbounded, and included and excluded
\* at every bound key.
Bounds == {Unbounded} \cup {Included(k) : k \in BoundKeys} \cup {Excluded(k) : k \in BoundKeys}

\* Runs of inserts alone, on which every range is compared with the
\* reference map.
NextRange == Insert

SpecRange == Init /\ [][NextRange]_vars

AfterStart(k, b) ==
    CASE b.kind = "Included" -> k >= b.key
      [] b.kind = "Excluded" -> k > b.key
      [] OTHER -> TRUE

BeforeEnd(k, b) ==
    CASE b.kind = "Included" -> k <= b.key
      [] b.kind = "Excluded" -> k < b.key
      [] OTHER -> TRUE

\* BTreeMap::range of the reference map (it panics when the start is after
\* the end, or equal to it with both bounds excluded; there it is taken to
\* be empty).
ModelRange(m, start_bound, end_bound) ==
    LET InRange(p) == AfterStart(p[1], start_bound) /\ BeforeEnd(p[1], end_bound)
    IN SelectSeq(SortedPairs(m, 0, MaxKey + 1), InRange)

OnlyPayloadSlotsDiffer(s, t, a, b) ==
    LET fa == search(s.nodes, s.root_id, a)
        fb == search(s.nodes, s.root_id, b)
        restored == set_payload(set_payload(t, fa.node, fa.i,
                                            get_payload(s.nodes, fa.node, fa.i).val),
                                fb.node, fb.i, get_payload(s.nodes, fb.node, fb.i).val)
    IN restored = s

\* C7: with a and b both present, swap(a, b) succeeds; afterwards get(a) is
\* b's previous value and get(b) is a's previous value; len(), the key set and
\* the value of every other key are unchanged; the value store is untouched
\* and the node pages differ only in the two payload slots, which are
\* cross-assigned; swap(a, a) leaves the index unchanged.
C7_SwapExchangesValues ==
    [][(last'.op = "swap" /\ ops' = ops + 1
        /\ last'.key \in DOMAIN model /\ last'.key2 \in DOMAIN model) =>
          LET a == last'.key
              b == last'.key2
              fa == search(index.nodes, index.root_id, a)
              fb == search(index.nodes, index.root_id, b)
          IN /\ last'.err = "ok"
             /\ index'.err = "ok"
             /\ get(index', a, FALSE).ret = get(index, b, FALSE).ret
             /\ get(index', b, FALSE).ret = get(index, a, FALSE).ret
             /\ get(index', a, FALSE).ret = Some(model[b])
             /\ get(index', b, FALSE).ret = Some(model[a])
             /\ len(index') = len(index)
             /\ \A k \in ProbeKeys :
                   /\ contains_key(index', k) = contains_key(index, k)
                   /\ k \notin {a, b} =>
                         get(index', k, FALSE).ret = get(index, k, FALSE).ret
             /\ index'.values = index.values
             /\ OnlyPayloadSlotsDiffer(index, index', a, b)
             /\ get_payload(index'.nodes, fa.node, fa.i)
                   = get_payload(index.nodes, fb.node, fb.i)
             /\ get_payload(index'.nodes, fb.node, fb.i)
                   = get_payload(index.nodes, fa.node, fa.i)
             /\ (a = b => index' = index)]_vars

\* C7 witness: a swap of a key stored in an internal root with a key stored
\* in a leaf has succeeded and the two keys now map to different values, each
\* to the other's previous one.
C7_Witness ==
    /\ RootIsInternal
    /\ last.op = "swap" /\ last.err = "ok"
    /\ last.key # last.key2
    /\ search(index.nodes, index.root_id, last.key).node = index.root_id
    /\ search(index.nodes, index.root_id, last.key2).node # index.root_id
    /\ get(index, last.key, FALSE).ret # get(index, last.key2, FALSE).ret
    /\ get(index, last.key, FALSE).ret = Some(model[last.key])

\* C8: swap(a, b) fails with NonExistingKey exactly when a or b is absent,
\* and then the index is unchanged: no slot is modified and get of every key
\* returns what it returned before.
C8_SwapOfAbsentKeyFails ==
    [][(last'.op = "swap" /\ ops' = ops + 1) =>
          LET a == last'.key
              b == last'.key2
              absent == a \notin DOMAIN model \/ b \notin DOMAIN model
          IN /\ (last'.err = "NonExistingKey") <=> absent
             /\ absent <=> (~contains_key(index, a).val \/ ~contains_key(index, b).val)
             /\ absent =>
                   /\ index' = index
                   /\ \A k \in ProbeKeys :
                         get(index', k, FALSE).ret = get(index, k, FALSE).ret]_vars

\* C8 witness: a swap of a stored key with an absent one has failed with
\* NonExistingKey on a tree with an internal root.
C8_Witness ==
    /\ RootIsInternal
    /\ last.op = "swap" /\ last.err = "NonExistingKey"
    /\ last.key \in DOMAIN model
    /\ last.key2 \notin DOMAIN model

C10_OrderAtHalfRejected ==
    (last.op = "with_capacity" /\ config.order >= MAX_NUMBER_KEYS \div 2) =>
        index.err = "OrderTooLarge"

\* C10 amended: construction yields OrderTooLarge exactly for the orders
\* strictly above MAX_NUMBER_KEYS / 2; the order MAX_NUMBER_KEYS / 2 itself
\* is accepted.
C10_OrderAboveHalfRejected ==
    last.op = "with_capacity" =>
        (index.err = "OrderTooLarge") <=> (config.order > MAX_NUMBER_KEYS \div 2)

\* C10 witness: construction with the order just above MAX_NUMBER_KEYS / 2
\* has failed with OrderTooLarge.
C10_Witness ==
    /\ last.op = "with_capacity"
    /\ config.order = (MAX_NUMBER_KEYS \div 2) + 1
    /\ index.err = "OrderTooLarge"

\* --------------------------------------------------------- concurrent readers
\* get(&self) taken apart into the steps other threads can interleave with:
\* the descent and the relocation lookup read data no reader writes; the
\* block cache is shared and guarded by its mutex.
\*   "try_lock" : before cache.try_lock() of get_cached_entry
\*   "locked"   : holds the mutex, before the cache lookup
\*   "read"     : get_cached_entry returned None, before read_block
\*   "done"     : the call has returned ret / err
Done(r, ret, err) == [r EXCEPT !.pc = "done", !.ret = ret, !.err = err]

\* search, get_payload and the relocation lookup of get_owned.
reader_begin(s, key) ==
    With(search(s.nodes, s.root_id, key), LAMBDA f :
        IF f.err # "ok" THEN Done([Idle EXCEPT !.key = key], None, f.err)
        ELSE IF ~f.found THEN Done([Idle EXCEPT !.key = key], None, "ok")
        ELSE With(get_payload(s.nodes, f.node, f.i), LAMBDA p :
                IF p.err # "ok" THEN Done([Idle EXCEPT !.key = key], None, p.err)
                ELSE [Idle EXCEPT !.pc = "try_lock", !.key = key,
                                  !.id = Relocated(s.values, p.val)]))

\* Mutant: a reader that finds the mutex held answers with the newest entry
\* of the cache instead of reading its block.
reader_read_newest_cached(vf, r) ==
    IF Len(vf.cache) > 0 THEN Done(r, Some(vf.cache[Len(vf.cache)].val), "ok")
    ELSE Done(r, None, "ok")

\* The else arm of get_owned: read_block(block_id)?
reader_read(vf, r) ==
    With(read_block(vf, r.id), LAMBDA b :
        IF b.err # "ok" THEN Done(r, None, b.err) ELSE Done(r, Some(b.val), "ok"))

Begin(t) ==
    /\ index.err = "ok"
    /\ readers[t].pc = "idle"
    /\ \E key \in Keys : readers' = [readers EXCEPT ![t] = reader_begin(index, key)]
    /\ UNCHANGED <<index, config, model, ops, last, cache_lock>>

\* Mutant: lock() instead of try_lock(): the caller waits for the mutex.
TryLockWaiting(t) ==
    /\ readers[t].pc = "try_lock"
    /\ cache_lock = 0
    /\ cache_lock' = t
    /\ readers' = [readers EXCEPT ![t].pc = "locked"]
    /\ UNCHANGED <<index, config, model, ops, last>>

\* try_lock succeeds when no thread holds the mutex and fails otherwise.
TryLock(t) ==
    /\ readers[t].pc = "try_lock"
    /\ IF cache_lock = 0
       THEN /\ cache_lock' = t
            /\ readers' = [readers EXCEPT ![t].pc = "locked"]
       ELSE /\ cache_lock' = cache_lock
            /\ readers' = [readers EXCEPT ![t].pc = "read"]
    /\ UNCHANGED <<index, config, model, ops, last>>

\* The body of get_cached_entry under the mutex; the guard is dropped at the
\* end of the if-let.
CacheLookup(t) ==
    /\ readers[t].pc = "locked"
    /\ cache_lock = t
    /\ \E c \in {get_cached_entry(index.values, readers[t].id, FALSE)} :
          /\ index' = [index EXCEPT !.values = c.vf]
          /\ readers' = [readers EXCEPT ![t] =
                            IF c.hit THEN Done(readers[t], Some(c.val), "ok")
                            ELSE [readers[t] EXCEPT !.pc = "read"]]
    /\ cache_lock' = 0
    /\ UNCHANGED <<config, model, ops, last>>

ReadBlock(t) ==
    /\ readers[t].pc = "read"
    /\ readers' = [readers EXCEPT ![t] = reader_read(index.values, readers[t])]
    /\ UNCHANGED <<index, config, model, ops, last, cache_lock>>

\* The caller takes the result; the thread can call again.
Return(t) ==
    /\ readers[t].pc = "done"
    /\ readers[t].err = "ok"
    /\ readers' = [readers EXCEPT ![t] = Idle]
    /\ UNCHANGED <<index, config, model, ops, last, cache_lock>>

\* insert(&mut self) needs the exclusive borrow: no reader is inside a call.
InsertAlone ==
    /\ \A t \in Threads : readers[t].pc = "idle"
    /\ \E key \in Keys : InsertCall(key, ConcInserts)

NextConc ==
    \/ InsertAlone
    \/ \E t \in Threads : Begin(t)
    \/ \E t \in Threads : TryLock(t)
    \/ \E t \in Threads : CacheLookup(t)
    \/ \E t \in Threads : ReadBlock(t)
    \/ \E t \in Threads : Return(t)

SpecConc == Init /\ [][NextConc]_vars

\* C11: every get that returns while other readers are at any step of their
\* own get returns Ok with the result of that call executed on its own,
\* which is the value the reference map holds for the key.
C11_ConcurrentGetIsSerial ==
    \A t \in Threads :
        readers[t].pc = "done" =>
            /\ readers[t].err = "ok"
            /\ readers[t].ret = get(index, readers[t].key, FALSE).ret
            /\ readers[t].ret = ModelGet(model, readers[t].key)

\* Reached: one reader was refused the mutex held by the other and returned
\* a stored value read from its block, in a tree with an internal root.
C11_Witness ==
    /\ RootIsInternal
    /\ \E t \in Threads, u \in Threads :
          /\ t # u
          /\ readers[u].pc = "locked"
          /\ cache_lock = u
          /\ readers[t].pc = "done"
          /\ readers[t].ret.some
          /\ CacheIndex(index.values.cache, readers[t].id) # 0
          /\ readers[t].id # readers[u].id

\* ------------------------------------------- tuple store of vectors (B = Vec)
\* TemporaryBlockFile<Vec<u64>> as used by block_insert_get_update: bincode
\* writes the length of the vector and then its elements as variable-length
\* integers.  The vectors stored hold elements below 251, one byte each.
MaxStoreOps == 4
MaxBlocks == 2

serialize_vec(v) == serialize(Len(v)) \o v

\* The length prefix is 1, 3 or 5 bytes; a short or a long input fails.
deserialize_vec(bytes) ==
    IF Len(bytes) = 0 THEN Res("Bincode", <<>>)
    ELSE With(IF bytes[1] < 251 THEN 1 ELSE IF bytes[1] = 251 THEN 3 ELSE 5,
              LAMBDA prefix :
            IF Len(bytes) < prefix THEN Res("Bincode", <<>>)
            ELSE Bind(deserialize(SubSeq(bytes, 1, prefix)), LAMBDA n :
                    IF Len(bytes) # prefix + n THEN Res("Bincode", <<>>)
                    ELSE Res("ok", SubSeq(bytes, prefix + 1, prefix + n))))

read_block_vec(vf, block_id) ==
    IF block_header_panics(vf, block_id) THEN Res("panic", <<>>)
    ELSE With(block_header(vf, block_id), LAMBDA header :
            IF block_id + BlockHeader_size + header.used > vf.mmap_len
            THEN Res("panic", <<>>)
            ELSE deserialize_vec([j \in 1..header.used |->
                                     IF j <= Len(header.data) THEN header.data[j] ELSE 0]))

\* Mutant: the relocation table is not consulted, the block of the id given
\* is read.
get_owned_vec_unrelocated(vf, block_id, locked) ==
    With(get_cached_entry(vf, block_id, locked), LAMBDA c :
        IF c.hit THEN [err |-> "ok", val |-> c.val, vf |-> c.vf]
        ELSE With(read_block_vec(vf, block_id), LAMBDA r :
                [err |-> r.err, val |-> r.val, vf |-> vf]))

\* Returns [err, val, vf].
get_owned_vec(vf, block_id, locked) ==
    With(Relocated(vf, block_id), LAMBDA id :
    With(get_cached_entry(vf, id, locked), LAMBDA c :
        IF c.hit THEN [err |-> "ok", val |-> c.val, vf |-> c.vf]
        ELSE With(read_block_vec(vf, id), LAMBDA r :
                [err |-> r.err, val |-> r.val, vf |-> vf])))

\* Returns [err, fits, size].
can_update_vec(vf, block_id, block) ==
    With(Relocated(vf, block_id), LAMBDA id :
        IF block_header_panics(vf, id) THEN [err |-> "panic", fits |-> FALSE, size |-> 0]
        ELSE [err |-> "ok",
              fits |-> Len(serialize_vec(block)) <= block_header(vf, id).capacity,
              size |-> Len(serialize_vec(block))])

\* Mutant: a block that is in the cache keeps its cached value.
write_block_vec_keeps_cached(vf1, id, block, new_used_size) ==
    IF block_header_panics(vf1, id) THEN [err |-> "panic", vf |-> vf1]
    ELSE With(block_header(vf1, id), LAMBDA header :
         With(serialize_vec(block), LAMBDA bytes :
            IF id + BlockHeader_size + header.capacity > vf1.mmap_len
            THEN [err |-> "panic", vf |-> vf1]
            ELSE IF Len(bytes) > header.capacity
            THEN [err |-> "Bincode",
                  vf |-> WriteBlock(vf1, id, [header EXCEPT !.used = new_used_size])]
            ELSE With(WriteBlock(vf1, id,
                         [header EXCEPT !.used = new_used_size,
                                        !.data = Overwrite(header.data, bytes)]),
                      LAMBDA vf2 :
                 With(IF CacheIndex(vf2.cache, id) # 0 THEN vf2.cache
                      ELSE CacheInsert(vf2.cache, id, block), LAMBDA c1 :
                    [err |-> "ok",
                     vf |-> [vf2 EXCEPT !.cache =
                                IF Len(c1) > vf2.block_cache_size
                                THEN Tail(c1) ELSE c1]]))))

write_block_vec(vf1, id, block, new_used_size) ==
    IF block_header_panics(vf1, id) THEN [err |-> "panic", vf |-> vf1]
    ELSE With(block_header(vf1, id), LAMBDA header :
         With(serialize_vec(block), LAMBDA bytes :
            IF id + BlockHeader_size + header.capacity > vf1.mmap_len
            THEN [err |-> "panic", vf |-> vf1]
            ELSE IF Len(bytes) > header.capacity
            THEN [err |-> "Bincode",
                  vf |-> WriteBlock(vf1, id, [header EXCEPT !.used = new_used_size])]
            ELSE With(WriteBlock(vf1, id,
                         [header EXCEPT !.used = new_used_size,
                                        !.data = Overwrite(header.data, bytes)]),
                      LAMBDA vf2 :
                 With(CacheInsert(vf2.cache, id, block), LAMBDA c1 :
                    [err |-> "ok",
                     vf |-> [vf2 EXCEPT !.cache =
                                IF Len(c1) > vf2.block_cache_size
                                THEN Tail(c1) ELSE c1]]))))

\* Mutant: a block that was relocated before is written in place when the
\* value fitted the first block.
put_vec_first_block(vf, block_id, block) ==
    With(can_update_vec(vf, block_id, block), LAMBDA cu :
        IF cu.err # "ok" THEN [err |-> cu.err, vf |-> vf]
        ELSE IF Len(serialize_vec(block)) <= block_header(vf, block_id).capacity
        THEN write_block_vec(vf, block_id, block, cu.size)
        ELSE With(allocate_block(vf, page_aligned_capacity(cu.size * 2)), LAMBDA a :
                IF a.err # "ok" THEN [err |-> a.err, vf |-> a.vf]
                ELSE write_block_vec(
                        [a.vf EXCEPT !.relocated_blocks =
                            [b \in (DOMAIN a.vf.relocated_blocks) \cup {block_id} |->
                                IF b = block_id THEN a.val
                                ELSE a.vf.relocated_blocks[b]]],
                        a.val, block, cu.size)))

\* Mutant: a second relocation is entered behind the first one, under the
\* id of the block that overflowed.
put_vec_chained(vf, block_id, block) ==
    With(Relocated(vf, block_id), LAMBDA relocated_block_id :
    With(can_update_vec(vf, relocated_block_id, block), LAMBDA cu :
        IF cu.err # "ok" THEN [err |-> cu.err, vf |-> vf]
        ELSE IF cu.fits THEN write_block_vec(vf, relocated_block_id, block, cu.size)
        ELSE With(allocate_block(vf, page_aligned_capacity(cu.size * 2)), LAMBDA a :
                IF a.err # "ok" THEN [err |-> a.err, vf |-> a.vf]
                ELSE write_block_vec(
                        [a.vf EXCEPT !.relocated_blocks =
                            [b \in (DOMAIN a.vf.relocated_blocks) \cup {relocated_block_id} |->
                                IF b = relocated_block_id THEN a.val
                                ELSE a.vf.relocated_blocks[b]]],
                        a.val, block, cu.size))))

\* Mutant: the size needed is compared with the bytes in use, not with the
\* capacity of the block.
put_vec_by_used(vf, block_id, block) ==
    With(Relocated(vf, block_id), LAMBDA relocated_block_id :
    With(can_update_vec(vf, relocated_block_id, block), LAMBDA cu :
        IF cu.err # "ok" THEN [err |-> cu.err, vf |-> vf]
        ELSE IF cu.size <= block_header(vf, relocated_block_id).used
        THEN write_block_vec(vf, relocated_block_id, block, cu.size)
        ELSE With(allocate_block(vf, page_aligned_capacity(cu.size * 2)), LAMBDA a :
                IF a.err # "ok" THEN [err |-> a.err, vf |-> a.vf]
                ELSE write_block_vec(
                        [a.vf EXCEPT !.relocated_blocks =
                            [b \in (DOMAIN a.vf.relocated_blocks) \cup {block_id} |->
                                IF b = block_id THEN a.val
                                ELSE a.vf.relocated_blocks[b]]],
                        a.val, block, cu.size))))

\* Returns [err, vf].
put_vec(vf, block_id, block) ==
    With(Relocated(vf, block_id), LAMBDA relocated_block_id :
    With(can_update_vec(vf, relocated_block_id, block), LAMBDA cu :
        IF cu.err # "ok" THEN [err |-> cu.err, vf |-> vf]
        ELSE IF cu.fits THEN write_block_vec(vf, relocated_block_id, block, cu.size)
        ELSE With(allocate_block(vf, page_aligned_capacity(cu.size * 2)), LAMBDA a :
                IF a.err # "ok" THEN [err |-> a.err, vf |-> a.vf]
                ELSE write_block_vec(
                        [a.vf EXCEPT !.relocated_blocks =
                            [b \in (DOMAIN a.vf.relocated_blocks) \cup {block_id} |->
                                IF b = block_id THEN a.val
                                ELSE a.vf.relocated_blocks[b]]],
                        a.val, block, cu.size))))

\* The store on its own.  index.values is the store, model maps every id
\* returned by allocate_block to the value of its last put (None before the
\* first), ops counts the allocate_block and put calls.
Vec(b, n) == [j \in 1..n |-> b]

\* Two vectors of 3 bytes, one of 8, and one larger than the block a first
\* relocation allocates.
StoreValues == {Vec(1, 2), Vec(5, 2), Vec(2, 7), Vec(4, PAGE_SIZE)}

StoreCapacities == {4, 16}

StoreConfigs == [block_cache_size : {0, 2}, capacity : {0, 128}]

InitStore ==
    /\ config \in StoreConfigs
    /\ index = [err |-> "ok",
                values |-> TemporaryBlockFile_with_capacity(config.capacity,
                                                            config.block_cache_size)]
    /\ model = EmptyMap
    /\ ops = 0
    /\ last = NoCall
    /\ readers = NoReaders
    /\ cache_lock = 0

StoreAllocate ==
    /\ index.err = "ok"
    /\ ops < MaxStoreOps
    /\ Cardinality(DOMAIN model) < MaxBlocks
    /\ \E capacity \in StoreCapacities :
       \E a \in {allocate_block(index.values, capacity)} :
          /\ index' = [err |-> a.err, values |-> a.vf]
          /\ model' = IF a.err = "ok" THEN MapPut(model, a.val, None) ELSE model
          /\ last' = [op |-> "allocate_block", key |-> a.val, key2 |-> 0,
                      value |-> capacity, ret |-> None, err |-> a.err]
    /\ ops' = ops + 1
    /\ UNCHANGED <<config, readers, cache_lock>>

StorePut ==
    /\ index.err = "ok"
    /\ ops < MaxStoreOps
    /\ \E id \in DOMAIN model, v \in StoreValues :
       \E w \in {put_vec(index.values, id, v)} :
          /\ index' = [err |-> w.err, values |-> w.vf]
          /\ model' = MapPut(model, id, Some(v))
          /\ last' = [op |-> "put", key |-> id, key2 |-> 0,
                      value |-> v, ret |-> None, err |-> w.err]
    /\ ops' = ops + 1
    /\ UNCHANGED <<config, readers, cache_lock>>

\* get_owned(&self): a hit re-orders the cache.
StoreGet ==
    /\ index.err = "ok"
    /\ \E id \in {b \in DOMAIN model : model[b].some} :
       \E r \in {get_owned_vec(index.values, id, FALSE)} :
          index' = [err |-> r.err, values |-> r.vf]
    /\ UNCHANGED <<config, model, ops, last, readers, cache_lock>>

NextStore == StoreAllocate \/ StorePut \/ StoreGet

SpecStore == InitStore /\ [][NextStore]_vars

\* The ids of all blocks, those handed to the caller and those that
\* relocations allocated.
AllocatedBlocks == DOMAIN index.values.blocks

\* C12: in every state of the store, get_owned (and get, which differs only
\* in wrapping the result) of every id that was put returns the value of the
\* last put to it, whether the cache is consulted or the mutex is held, and
\* no call fails.
C12_StoreRoundTrip ==
    /\ index.err = "ok"
    /\ \A id \in DOMAIN model :
          model[id].some =>
             \A locked \in BOOLEAN :
                \E r \in {get_owned_vec(index.values, id, locked)} :
                    r.err = "ok" /\ r.val = model[id].v

\* Reached: a block that was relocated twice (its value outgrew the block of
\* the first relocation) returns its latest value, next to another block.
C12_Witness ==
    /\ last.op = "put"
    /\ Cardinality(DOMAIN model) = 2
    /\ Cardinality(AllocatedBlocks) = 4
    /\ DOMAIN index.values.relocated_blocks = {last.key}
    /\ Len(last.value) = PAGE_SIZE
    /\ get_owned_vec(index.values, last.key, TRUE).val = last.value

\* ------------------------------------------------- paged regions, byte by byte
\* A mapping as its length and the bytes that are not zero: map_anon gives a
\* zero-filled mapping.  Offsets are those of the source, from 0.
MaxGrowOps == 5

map_anon(length) == [len |-> length, bytes |-> [o \in {} |-> 0]]

ReadByte(mmap, o) == IF o \in DOMAIN mmap.bytes THEN mmap.bytes[o] ELSE 0

\* mmap[o] = b; the index panics beyond the mapping, the callers stay inside.
WriteByte(mmap, o, b) ==
    [mmap EXCEPT !.bytes = [x \in (DOMAIN mmap.bytes) \cup {o} |->
                               IF x = o THEN b ELSE mmap.bytes[x]]]

\* new_mmap[0..old.len()].copy_from_slice(&old)
copy_from_slice(new_mmap, old) ==
    [new_mmap EXCEPT !.bytes =
        [o \in {x \in DOMAIN old.bytes : x < old.len} |-> old.bytes[o]]]

\* Mutant: the new mapping replaces the old one without the copy.
mmap_grow_uncopied(mmap, requested_size) ==
    IF requested_size <= mmap.len THEN mmap
    ELSE map_anon(Max(requested_size, mmap.len * 2))

\* Mutant: the new mapping has the requested size, not at least the double.
mmap_grow_undoubled(mmap, requested_size) ==
    IF requested_size <= mmap.len THEN mmap
    ELSE copy_from_slice(map_anon(requested_size), mmap)

\* TemporaryBlockFile::grow on the bytes of the mapping.
mmap_grow(mmap, requested_size) ==
    IF requested_size <= mmap.len THEN mmap
    ELSE copy_from_slice(map_anon(Max(requested_size, mmap.len * 2)), mmap)

\* NodeFile::grow on the bytes of the mapping.
NodeFile_mmap_grow(mmap, requested_size) ==
    IF requested_size <= mmap.len THEN mmap
    ELSE copy_from_slice(map_anon(Max(requested_size, mmap.len * 2)), mmap)

\* The regions explored: the mapping of a tuple store and of a node store
\* as their with_capacity creates them.
GrowConfigs ==
    [region : {"tuple"}, capacity : {0, 128}]
        \cup [region : {"node"}, capacity : {0, 2}]

InitialLen(c) ==
    IF c.region = "tuple" THEN Max(c.capacity, 1)
    ELSE Max(c.capacity, 1) * NODE_BLOCK_ALIGNED_SIZE

\* index.mmap is the mapping, model the bytes written so far, ops the number
\* of writes and grow calls.
InitGrow ==
    /\ config \in GrowConfigs
    /\ index = [err |-> "ok", mmap |-> map_anon(InitialLen(config))]
    /\ model = EmptyMap
    /\ ops = 0
    /\ last = NoCall
    /\ readers = NoReaders
    /\ cache_lock = 0

\* A write of a header, block or page byte inside the mapping.
WriteOffsets(length) == {0, length \div 2, length - 1}

GrowWrite ==
    /\ ops < MaxGrowOps
    /\ \E o \in WriteOffsets(index.mmap.len), b \in {1, 2} :
          /\ index' = [index EXCEPT !.mmap = WriteByte(index.mmap, o, b)]
          /\ model' = MapPut(model, o, b)
          /\ last' = [op |-> "write", key |-> o, key2 |-> index.mmap.len,
                      value |-> b, ret |-> None, err |-> "ok"]
    /\ ops' = ops + 1
    /\ UNCHANGED <<config, readers, cache_lock>>

\* Sizes asked for: below, at and above the length, and above its double.
GrowRequests(length) == {0, length, length + 1, (2 * length) + 3}

\* last.key2 is the length before the call.
Grow ==
    /\ ops < MaxGrowOps
    /\ \E requested_size \in GrowRequests(index.mmap.len) :
          /\ index' = [index EXCEPT !.mmap =
                          IF config.region = "tuple"
                          THEN mmap_grow(index.mmap, requested_size)
                          ELSE NodeFile_mmap_grow(index.mmap, requested_size)]
          /\ last' = [op |-> "grow", key |-> requested_size, key2 |-> index.mmap.len,
                      value |-> 0, ret |-> None, err |-> "ok"]
    /\ ops' = ops + 1
    /\ UNCHANGED <<config, model, readers, cache_lock>>

NextGrow == GrowWrite \/ Grow

SpecGrow == InitGrow /\ [][NextGrow]_vars

\* C13: after any sequence of writes and grow calls the mapping is at least
\* as long as before the last call and as asked for, every byte written
\* reads back as written and every other byte reads zero, so the bytes
\* below the length before a grow are those from before it.
C13_GrowKeepsPrefix ==
    /\ index.mmap.len >= InitialLen(config)
    /\ last.op \in {"grow", "write"} => index.mmap.len >= last.key2
    /\ last.op = "grow" =>
          /\ index.mmap.len >= last.key
          /\ index.mmap.len = IF last.key <= last.key2 THEN last.key2
                              ELSE Max(last.key, 2 * last.key2)
    /\ \A o \in (DOMAIN model) \cup (DOMAIN index.mmap.bytes) :
          /\ o < index.mmap.len
          /\ ReadByte(index.mmap, o) = (IF o \in DOMAIN model THEN model[o] ELSE 0)

\* Reached: a node region that grew twice since its first and last bytes
\* were written still holds both.
C13_Witness ==
    /\ config.region = "node"
    /\ last.op = "grow"
    /\ last.key > last.key2
    /\ index.mmap.len >= 4 * InitialLen(config)
    /\ 0 \in DOMAIN model
    /\ (InitialLen(config) - 1) \in DOMAIN model
    /\ ReadByte(index.mmap, InitialLen(config) - 1) = model[InitialLen(config) - 1]

\* ----------------------------------------------------------- fixed tuple store
\* FixedSizeTupleFile<u64> with the declared width fixed_size: blocks of
\* exactly that width side by side in the mapping, no header, no cache, no
\* relocation.  A store is [free_space_offset, mmap, fixed_size].
MaxFixedOps == 5

\* u64::to_le_bytes: the eight bytes, lowest first.
RECURSIVE to_le_bytes(_, _)
to_le_bytes(v, n) ==
    IF n = 0 THEN <<>> ELSE <<v % 256>> \o to_le_bytes(v \div 256, n - 1)

\* Mutant: only the lowest byte of the value is copied into the array.
to_byte_array_low_byte(v) == to_le_bytes(v % 256, 8)

to_byte_array(v) == to_le_bytes(v, 8)

\* u64::from_le_bytes
RECURSIVE from_byte_array(_)
from_byte_array(data) ==
    IF Len(data) = 0 THEN 0 ELSE data[1] + (256 * from_byte_array(Tail(data)))

FixedSizeTupleFile_with_capacity(capacity, fixed_size) ==
    [free_space_offset |-> 0,
     mmap |-> map_anon(Max(capacity, 1)),
     fixed_size |-> fixed_size]

\* Returns [err, val, ff]: val is the id of the new block.
Fixed_allocate_block(ff, capacity) ==
    IF capacity # ff.fixed_size THEN [err |-> "InvalidCapacity", val |-> 0, ff |-> ff]
    ELSE [err |-> "ok", val |-> ff.free_space_offset,
          ff |-> [ff EXCEPT
                     !.mmap = mmap_grow(ff.mmap, ff.free_space_offset + capacity),
                     !.free_space_offset = ff.free_space_offset + capacity]]

RECURSIVE write_bytes(_, _, _)
write_bytes(mmap, o, bytes) ==
    IF Len(bytes) = 0 THEN mmap
    ELSE write_bytes(WriteByte(mmap, o, bytes[1]), o + 1, Tail(bytes))

\* Returns [err, ff]; the slice of the block panics beyond the mapping.
Fixed_put(ff, block_id, block) ==
    IF block_id + ff.fixed_size > ff.mmap.len THEN [err |-> "panic", ff |-> ff]
    ELSE [err |-> "ok",
          ff |-> [ff EXCEPT !.mmap = write_bytes(ff.mmap, block_id,
                                         SubSeq(to_byte_array(block), 1, ff.fixed_size))]]

\* Returns [err, val].
Fixed_get_owned(ff, block_id) ==
    IF block_id + ff.fixed_size > ff.mmap.len THEN Res("panic", 0)
    ELSE Res("ok", from_byte_array([j \in 1..ff.fixed_size |->
                                       ReadByte(ff.mmap, block_id + j - 1)]))

\* The widths asked for and the values stored (one, two and three bytes that
\* are not zero).
FixedWidths == {4, 8, 16}
FixedValues == {42, 300, 70000}
FixedConfigs == [fixed_size : {8}, capacity : {0, 128}]

\* index.fixed is the store, model maps every id returned by allocate_block
\* to the value of its last put (None before the first); last.key2 is the
\* free offset before the call.
InitFixed ==
    /\ config \in FixedConfigs
    /\ index = [err |-> "ok",
                fixed |-> FixedSizeTupleFile_with_capacity(config.capacity,
                                                           config.fixed_size)]
    /\ model = EmptyMap
    /\ ops = 0
    /\ last = NoCall
    /\ readers = NoReaders
    /\ cache_lock = 0

\* An InvalidCapacity error is returned to the caller, the store stays usable.
FixedAllocate ==
    /\ index.err = "ok"
    /\ ops < MaxFixedOps
    /\ \E capacity \in FixedWidths :
       \E a \in {Fixed_allocate_block(index.fixed, capacity)} :
          /\ index' = [index EXCEPT !.fixed = a.ff]
          /\ model' = IF a.err = "ok" THEN MapPut(model, a.val, None) ELSE model
          /\ last' = [op |-> "allocate_block", key |-> a.val,
                      key2 |-> index.fixed.free_space_offset,
                      value |-> capacity, ret |-> None, err |-> a.err]
    /\ ops' = ops + 1
    /\ UNCHANGED <<config, readers, cache_lock>>

FixedPut ==
    /\ index.err = "ok"
    /\ ops < MaxFixedOps
    /\ \E id \in DOMAIN model, v \in FixedValues :
       \E w \in {Fixed_put(index.fixed, id, v)} :
          /\ index' = [err |-> w.err, fixed |-> w.ff]
          /\ model' = MapPut(model, id, Some(v))
          /\ last' = [op |-> "put", key |-> id,
                      key2 |-> index.fixed.free_space_offset,
                      value |-> v, ret |-> None, err |-> w.err]
    /\ ops' = ops + 1
    /\ UNCHANGED <<config, readers, cache_lock>>

NextFixed == FixedAllocate \/ FixedPut

SpecFixed == InitFixed /\ [][NextFixed]_vars

\* C14: allocate_block of another width than the declared one fails with
\* InvalidCapacity and leaves the free offset where it was; allocate_block
\* of the declared width returns the free offset and advances it by the
\* width, so the ids are the multiples of the width below the free offset;
\* get_owned of every id that was put returns the value of its last put.
C14_FixedStoreAllocates ==
    /\ index.err = "ok"
    /\ last.op = "allocate_block" =>
          IF last.value # config.fixed_size
          THEN /\ last.err = "InvalidCapacity"
               /\ index.fixed.free_space_offset = last.key2
          ELSE /\ last.err = "ok"
               /\ last.key = last.key2
               /\ index.fixed.free_space_offset = last.key2 + config.fixed_size
    /\ DOMAIN model = {id \in 0..(index.fixed.free_space_offset - 1) :
                          id % config.fixed_size = 0}
    /\ \A id \in DOMAIN model :
          model[id].some => Fixed_get_owned(index.fixed, id) = Res("ok", model[id].v)

\* Reached: an allocation of a wrong width was refused after two blocks were
\* allocated and hold different values.
C14_Witness ==
    /\ last.op = "allocate_block"
    /\ last.err = "InvalidCapacity"
    /\ Cardinality(DOMAIN model) = 2
    /\ \A id \in DOMAIN model : model[id].some
    /\ \E a \in DOMAIN model, b \in DOMAIN model : model[a].v # model[b].v
    /\ index.fixed.mmap.len > 1

\* ----------------------------------------------------------------- into_iter
\* Mutant: the entries of the root are left in ascending order on the stack.
into_iter_unreversed(s) ==
    With(find_range(s.nodes, s.root_id, Unbounded, Unbounded), LAMBDA f :
        [err |-> f.err, stack |-> f.val])

\* The BtreeIntoIter: [err, stack]; the node and value stores move into it
\* unchanged.
into_iter(s) ==
    With(find_range(s.nodes, s.root_id, Unbounded, Unbounded), LAMBDA f :
        [err |-> f.err, stack |-> Reverse(f.val)])

\* One call of BtreeIntoIter::next: [done, err, item, stack, vf].
RECURSIVE BtreeIntoIter_next(_, _, _)
BtreeIntoIter_next(nf, vf, stack) ==
    IF Len(stack) = 0
    THEN [done |-> TRUE, err |-> "ok", item |-> <<>>, stack |-> stack, vf |-> vf]
    ELSE With(stack[Len(stack)], LAMBDA e :
         With(SubSeq(stack, 1, Len(stack) - 1), LAMBDA rest :
            IF e.kind = "Child"
            THEN With(get_child_node(nf, e.node, e.idx), LAMBDA c :
                    IF c.err # "ok" THEN NextErr(c.err, rest, vf)
                    ELSE With(find_range(nf, c.val, Unbounded, Unbounded),
                              LAMBDA new_elements :
                            IF new_elements.err # "ok"
                            THEN NextErr(new_elements.err, rest, vf)
                            ELSE BtreeIntoIter_next(nf, vf,
                                    rest \o Reverse(new_elements.val))))
            ELSE With(get_key_value_tuple(nf, vf, e.node, e.idx), LAMBDA kv :
                    [done |-> FALSE, err |-> kv.err, item |-> <<kv.key, kv.val>>,
                     stack |-> rest, vf |-> kv.vf])))

\* The items of the iterator up to its end or its first error.
RECURSIVE into_iter_items(_, _, _, _)
into_iter_items(nf, vf, stack, acc) ==
    With(BtreeIntoIter_next(nf, vf, stack), LAMBDA n :
        IF n.done THEN Res("ok", acc)
        ELSE IF n.err # "ok" THEN Res(n.err, acc)
        ELSE into_iter_items(nf, n.vf, n.stack, Append(acc, n.item)))

\* for e in index.into_iter()? { .. }
into_iter_collect(s) ==
    With(into_iter(s), LAMBDA it :
        IF it.err # "ok" THEN Res(it.err, <<>>)
        ELSE into_iter_items(s.nodes, s.values, it.stack, <<>>))

\* C15: on every index reached by inserts, into_iter yields without error
\* the sequence that range(..) yields, which is every pair of the reference
\* map once in ascending key order.
C15_IntoIterIsFullRange ==
    index.err = "ok" =>
        /\ into_iter_collect(index) = range_collect(index, Unbounded, Unbounded)
        /\ into_iter_collect(index) = Res("ok", SortedPairs(model, 1, MaxKey))

\* Reached: a tree with an internal root and at least three nodes, with an
\* overwritten key, is iterated.
C15_Witness ==
    /\ RootIsInternal
    /\ AllocatedNodes >= 3
    /\ Cardinality(DOMAIN model) < ops
    /\ Len(into_iter_collect(index).val) >= 4

\* ====================================================================
\* BtreeIndex of btree.rs: the index whose nodes are NodeBlock records kept
\* in a TemporaryBlockFile, with keys and child ids in vectors.
\* ====================================================================
MaxBtreeOps == 6

\* usize::MAX stands for 2^64 - 1 of the host: the largest integer of the
\* checker, above the length of every vector of the model.
USIZE_MAX == 2147483647

\* a - b on usize: with overflow checks (the debug profile) a negative
\* difference panics, without them (the release profile) it wraps around.
usize_sub(a, b, overflow_checks) ==
    IF a >= b THEN [err |-> "ok", wrapped |-> FALSE, val |-> a - b]
    ELSE IF overflow_checks THEN [err |-> "panic", wrapped |-> FALSE, val |-> 0]
    ELSE [err |-> "ok", wrapped |-> TRUE, val |-> USIZE_MAX - (b - a) + 1]

\* Vec::insert(i, x) and the two halves of Vec::split_off(at); positions
\* count from 0 as in the source.
Vec_insert(v, i, x) == SubSeq(v, 1, i) \o <<x>> \o SubSeq(v, i + 1, Len(v))

Vec_split_off(v, at) == SubSeq(v, at + 1, Len(v))

Vec_truncated(v, at) == SubSeq(v, 1, at)

NodeBlock(id, keys, child_nodes) == [id |-> id, keys |-> keys, child_nodes |-> child_nodes]

NodeBlock_number_of_keys(node) == Len(node.keys)

NodeBlock_is_leaf(node) == node.child_nodes = <<>>

\* node.keys.binary_search_by(|e| e.key.cmp(key)) on a vector in ascending
\* order: Ok(i) at the position of the key, Err(i) at its insertion point.
Vec_binary_search_by(keys, key) ==
    With(Cardinality({j \in 1..Len(keys) : keys[j].key < key}), LAMBDA i :
        [found |-> i < Len(keys) /\ keys[i + 1].key = key, i |-> i])

\* keys.allocate_block: the id of a fresh block; ids count the blocks.
Btree_allocate_block(b) == [b EXCEPT !.keys = Append(@, NodeBlock(Len(@) + 1, <<>>, <<>>))]

\* keys.put(node.id, node)
Btree_put(b, node) == [b EXCEPT !.keys[node.id] = node]

BtreeIndex_with_capacity(c, capacity) ==
    IF c.order < 2
    THEN [err |-> "OrderTooSmall", keys |-> <<>>, values |-> <<>>, root_id |-> 0,
          order |-> c.order, nr_elements |-> 0]
    ELSE [err |-> "ok", keys |-> <<NodeBlock(1, <<>>, <<>>)>>, values |-> <<>>,
          root_id |-> 1, order |-> c.order, nr_elements |-> 0]

\* Returns [b, parent, left, right]: the index after the three put calls,
\* the parent with the split key and the new child, and the two halves.
BtreeIndex_split_child(b, parent, i) ==
    With(b.keys[parent.child_nodes[i + 1]], LAMBDA existing_node :
    With(Len(b.keys) + 1, LAMBDA new_node_id :
    With(NodeBlock(new_node_id, Vec_split_off(existing_node.keys, b.order),
                   IF NodeBlock_is_leaf(existing_node) THEN <<>>
                   ELSE Vec_split_off(existing_node.child_nodes, b.order)),
         LAMBDA new_node :
    With(NodeBlock(existing_node.id, Vec_truncated(existing_node.keys, b.order - 1),
                   IF NodeBlock_is_leaf(existing_node) THEN <<>>
                   ELSE Vec_truncated(existing_node.child_nodes, b.order)),
         LAMBDA left :
    With(NodeBlock(parent.id, Vec_insert(parent.keys, i, existing_node.keys[b.order]),
                   Vec_insert(parent.child_nodes, i + 1, new_node_id)),
         LAMBDA new_parent :
        [b |-> Btree_put(Btree_put(Btree_put(Btree_allocate_block(b), new_node),
                                   new_parent), left),
         parent |-> new_parent, left |-> left, right |-> new_node])))))

RECURSIVE BtreeIndex_insert_nonfull(_, _, _, _)
BtreeIndex_insert_nonfull(b, node, key, value) ==
    With(Vec_binary_search_by(node.keys, key), LAMBDA pos :
        IF pos.found
        THEN [b EXCEPT !.values[node.keys[pos.i + 1].payload_id] = value]
        ELSE IF NodeBlock_is_leaf(node)
        THEN Btree_put([b EXCEPT !.values = Append(@, value),
                                 !.nr_elements = @ + 1],
                       [node EXCEPT !.keys = Vec_insert(@, pos.i,
                            [key |-> key, payload_id |-> Len(b.values) + 1])])
        ELSE With(b.keys[node.child_nodes[pos.i + 1]], LAMBDA c :
            IF NodeBlock_number_of_keys(c) = 2 * b.order - 1
            THEN With(BtreeIndex_split_child(b, node, pos.i), LAMBDA s :
                    BtreeIndex_insert_nonfull(s.b,
                        IF key > s.parent.keys[pos.i + 1].key THEN s.right ELSE s.left,
                        key, value))
            ELSE BtreeIndex_insert_nonfull(b, c, key, value)))

BtreeIndex_insert(b, key, value) ==
    With(b.keys[b.root_id], LAMBDA root_node :
        IF NodeBlock_number_of_keys(root_node) = 2 * b.order - 1
        THEN With(Btree_allocate_block(b), LAMBDA b1 :
             With(BtreeIndex_split_child(b1, NodeBlock(Len(b1.keys), <<>>, <<root_node.id>>), 0),
                  LAMBDA s :
                [BtreeIndex_insert_nonfull(s.b, s.parent, key, value)
                    EXCEPT !.root_id = s.parent.id]))
        ELSE BtreeIndex_insert_nonfull(b, root_node, key, value))

\* StackEntry of btree.rs: the node is held by value behind an Rc.
Btree_key_or_child(node, idx) ==
    IF NodeBlock_is_leaf(node) THEN Key(node, idx) ELSE Child(node, idx)

\* Returns [err, wrapped, val].
Btree_find_first_candidate(node, start_bound, overflow_checks) ==
    IF start_bound.kind = "Unbounded"
    THEN [err |-> "ok", wrapped |-> FALSE, val |-> Btree_key_or_child(node, 0)]
    ELSE With(Vec_binary_search_by(node.keys, start_bound.key), LAMBDA key_pos :
        IF start_bound.kind = "Included"
        THEN [err |-> "ok", wrapped |-> FALSE,
              val |-> IF key_pos.found THEN Key(node, key_pos.i)
                      ELSE Btree_key_or_child(node, key_pos.i)]
        ELSE IF key_pos.found
        THEN [err |-> "ok", wrapped |-> FALSE,
              val |-> Btree_key_or_child(node, key_pos.i + 1)]
        ELSE With(usize_sub(key_pos.i, 1, overflow_checks), LAMBDA idx :
                [idx EXCEPT !.val = Child(node, idx.val)]))

Btree_find_range_included(item, end_bound) ==
    IF item.kind = "Child" THEN item.idx < Len(item.node.child_nodes)
    ELSE /\ item.idx < Len(item.node.keys)
         /\ \/ end_bound.kind = "Unbounded"
            \/ end_bound.kind = "Included" /\ item.node.keys[item.idx + 1].key <= end_bound.key
            \/ end_bound.kind = "Excluded" /\ item.node.keys[item.idx + 1].key < end_bound.key

Btree_find_range_next(item) ==
    IF item.kind = "Child" THEN Key(item.node, item.idx)
    ELSE Btree_key_or_child(item.node, item.idx + 1)

RECURSIVE Btree_find_range_loop(_, _, _)
Btree_find_range_loop(item, end_bound, result) ==
    IF Btree_find_range_included(item, end_bound)
    THEN Btree_find_range_loop(Btree_find_range_next(item), end_bound, Append(result, item))
    ELSE result

\* Returns [err, wrapped, val]: val the entries in ascending order.
NodeBlock_find_range(node, start_bound, end_bound, overflow_checks) ==
    With(Btree_find_first_candidate(node, start_bound, overflow_checks), LAMBDA first :
        IF first.err # "ok" THEN [first EXCEPT !.val = <<>>]
        ELSE [first EXCEPT !.val = Btree_find_range_loop(first.val, end_bound, <<>>)])

\* range() followed by next() until it returns None.  Returns
\* [err, wrapped, val]: val the pairs returned, the top of the stack is its
\* last element.
RECURSIVE BtreeRange_collect(_, _, _, _, _, _, _)
BtreeRange_collect(b, stack, start_bound, end_bound, overflow_checks, wrapped, items) ==
    IF stack = <<>> THEN [err |-> "ok", wrapped |-> wrapped, val |-> items]
    ELSE With(stack[Len(stack)], LAMBDA e :
         With(SubSeq(stack, 1, Len(stack) - 1), LAMBDA rest :
            IF e.kind = "Child"
            THEN With(NodeBlock_find_range(b.keys[e.node.child_nodes[e.idx + 1]],
                                           start_bound, end_bound, overflow_checks),
                      LAMBDA r :
                    IF r.err # "ok" THEN [r EXCEPT !.val = items]
                    ELSE BtreeRange_collect(b, rest \o Reverse(r.val), start_bound,
                                            end_bound, overflow_checks,
                                            wrapped \/ r.wrapped, items))
            ELSE BtreeRange_collect(b, rest, start_bound, end_bound, overflow_checks,
                                    wrapped,
                                    Append(items, <<e.node.keys[e.idx + 1].key,
                                                    b.values[e.node.keys[e.idx + 1].payload_id]>>))))

BtreeIndex_range_collect(b, start_bound, end_bound, overflow_checks) ==
    With(NodeBlock_find_range(b.keys[b.root_id], start_bound, end_bound, overflow_checks),
         LAMBDA r :
        IF r.err # "ok" THEN r
        ELSE BtreeRange_collect(b, Reverse(r.val), start_bound, end_bound,
                                overflow_checks, r.wrapped, <<>>))

\* ------------------------------------------------------------ state machine
\* The orders explored, each under both build profiles.
BtreeConfigs == [order : {2, 3}, overflow_checks : BOOLEAN]

InitBtree ==
    /\ config \in BtreeConfigs
    /\ index = BtreeIndex_with_capacity(config, 0)
    /\ model = EmptyMap
    /\ ops = 0
    /\ last = [op |-> "none", err |-> "ok", wrapped |-> FALSE]
    /\ readers = NoReaders
    /\ cache_lock = 0

BtreeInsert ==
    /\ index.err = "ok"
    /\ ops < MaxBtreeOps
    /\ \E key \in Keys :
          /\ index' = BtreeIndex_insert(index, key, ValueOf(ops + 1))
          /\ model' = MapPut(model, key, ValueOf(ops + 1))
    /\ last' = [op |-> "insert", err |-> "ok", wrapped |-> FALSE]
    /\ ops' = ops + 1
    /\ UNCHANGED <<config, readers, cache_lock>>

BtreeRange ==
    /\ index.err = "ok"
    /\ \E start_bound \in Bounds, end_bound \in Bounds :
          \E r \in {BtreeIndex_range_collect(index, start_bound, end_bound,
                                             config.overflow_checks)} :
             last' = [op |-> "range", err |-> r.err, wrapped |-> r.wrapped]
    /\ UNCHANGED <<index, config, model, ops, readers, cache_lock>>

NextBtree == BtreeInsert \/ BtreeRange

SpecBtree == InitBtree /\ [][NextBtree]_vars

\* ----------------------------------------------------------------------- C16
\* C16: no user-facing operation panics and no index arithmetic underflows:
\* every call returns without a panic and without a wrapped subtraction.
C16_NeverPanics == last.err # "panic" /\ ~last.wrapped

\* --------------------------------------------------- the tree behind the pages
\* The keys and the children of the page of node n, in slot order.
KeysOf(n) ==
    [i \in 1..NodeFile_get(index.nodes, n).num_keys |->
        Slot(NodeFile_get(index.nodes, n).keys, i - 1)]

ChildrenOf(n) ==
    IF NodeFile_get(index.nodes, n).is_leaf # 0 THEN <<>>
    ELSE [i \in 1..(NodeFile_get(index.nodes, n).num_keys + 1) |->
            Slot(NodeFile_get(index.nodes, n).child_nodes, i - 1)]

\* The nodes at most fuel child links below n, n included.
RECURSIVE SubtreeNodes(_, _)
SubtreeNodes(n, fuel) ==
    IF fuel = 0 THEN {n}
    ELSE {n} \cup UNION {SubtreeNodes(ChildrenOf(n)[i], fuel - 1) : i \in DOMAIN ChildrenOf(n)}

TreeNodes == SubtreeNodes(index.root_id, AllocatedNodes)

SubtreeKeys(n) ==
    UNION {{KeysOf(m)[i] : i \in DOMAIN KeysOf(m)} : m \in SubtreeNodes(n, AllocatedNodes)}

\* The key slots in use of the tree.
TreeSlots == {<<n, i>> \in TreeNodes \X (1..MAX_NUMBER_KEYS) : i \in DOMAIN KeysOf(n)}

\* The same for the node blocks of BtreeIndex.
RECURSIVE BtreeSubtreeNodes(_, _)
BtreeSubtreeNodes(n, fuel) ==
    IF fuel = 0 THEN {n}
    ELSE {n} \cup UNION {BtreeSubtreeNodes(index.keys[n].child_nodes[i], fuel - 1) :
                            i \in DOMAIN index.keys[n].child_nodes}

BtreeKeysOf(n) == [i \in DOMAIN index.keys[n].keys |-> index.keys[n].keys[i].key]

BtreeSubtreeKeys(n) ==
    UNION {{BtreeKeysOf(m)[i] : i \in DOMAIN BtreeKeysOf(m)} :
              m \in BtreeSubtreeNodes(n, Len(index.keys))}

BtreeTreeNodes == BtreeSubtreeNodes(index.root_id, Len(index.keys))

BtreeTreeSlots ==
    {<<n, i>> \in BtreeTreeNodes \X (1..MaxBtreeOps) : i \in DOMAIN BtreeKeysOf(n)}

\* ----------------------------------------------------------------------- C17
\* C17: after successful inserts the keys of every node are strictly
\* ascending, every key below child i of an internal node is smaller than
\* key i and every key below child i + 1 is larger, and no key is in two
\* slots of the tree.  Stated for the node blocks of BtreeIndex.
C17_KeysOrdered ==
    index.err = "ok" =>
        /\ \A n \in BtreeTreeNodes :
              /\ \A i \in 1..(Len(BtreeKeysOf(n)) - 1) :
                    BtreeKeysOf(n)[i] < BtreeKeysOf(n)[i + 1]
              /\ index.keys[n].child_nodes # <<>> =>
                    \A i \in DOMAIN BtreeKeysOf(n) :
                       /\ \A k \in BtreeSubtreeKeys(index.keys[n].child_nodes[i]) :
                             k < BtreeKeysOf(n)[i]
                       /\ \A k \in BtreeSubtreeKeys(index.keys[n].child_nodes[i + 1]) :
                             k > BtreeKeysOf(n)[i]
        /\ \A s1 \in BtreeTreeSlots, s2 \in BtreeTreeSlots :
              s1 # s2 => BtreeKeysOf(s1[1])[s1[2]] # BtreeKeysOf(s2[1])[s2[2]]

\* The same property of the node pages of InlineKeyBtreeIndex, which holds.
InlineKeysOrdered ==
    index.err = "ok" =>
        /\ \A n \in TreeNodes :
              /\ \A i \in 1..(Len(KeysOf(n)) - 1) : KeysOf(n)[i] < KeysOf(n)[i + 1]
              /\ ChildrenOf(n) # <<>> =>
                    \A i \in DOMAIN KeysOf(n) :
                       /\ \A k \in SubtreeKeys(ChildrenOf(n)[i]) : k < KeysOf(n)[i]
                       /\ \A k \in SubtreeKeys(ChildrenOf(n)[i + 1]) : k > KeysOf(n)[i]
        /\ \A s1 \in TreeSlots, s2 \in TreeSlots :
              s1 # s2 => KeysOf(s1[1])[s1[2]] # KeysOf(s2[1])[s2[2]]

\* ----------------------------------------------------------------------- C18
\* The ids of the node pages allocated so far.
AllNodes == 0..(AllocatedNodes - 1)

NumKeysOf(n) == NodeFile_get(index.nodes, n).num_keys

\* C18: after successful inserts with order t every node other than the
\* root holds between t - 1 and 2t - 1 keys and the root between 0 and
\* 2t - 1, which is at most MAX_NUMBER_KEYS.
C18_Occupancy ==
    index.err = "ok" =>
        /\ 2 * index.order - 1 <= MAX_NUMBER_KEYS
        /\ \A n \in AllNodes :
              /\ NumKeysOf(n) >= 0
              /\ NumKeysOf(n) <= 2 * index.order - 1
              /\ n # index.root_id => NumKeysOf(n) >= index.order - 1

\* A new key went into the last inserted node, a leaf below the root that
\* held it between its first and its last key and is full now, next to a
\* node with the fewest keys allowed.
C18_Witness ==
    /\ index.err = "ok"
    /\ last.op = "insert" /\ last.ret = None
    /\ index.last_inserted_node_id # index.root_id
    /\ NumKeysOf(index.last_inserted_node_id) = 2 * index.order - 1
    /\ KeysOf(index.last_inserted_node_id)[1] < last.key
    /\ last.key < KeysOf(index.last_inserted_node_id)[2 * index.order - 1]
    /\ \E n \in AllNodes : n # index.root_id /\ NumKeysOf(n) = index.order - 1

\* ------------------------------------------------------- deep trees: SpecDeep
\* Keys arrive in ascending order, the workload the last inserted node is
\* kept for: every insert brings the next larger key or the largest one
\* again.  Fourteen keys split an internal child of an order 2 tree.
MaxDeepKey == 14
MaxDeepOps == 15

InsertAscending ==
    \E key \in {Cardinality(DOMAIN model), Cardinality(DOMAIN model) + 1} :
       /\ key \in 1..MaxDeepKey
       /\ InsertCall(key, MaxDeepOps)

NextDeep == InsertAscending

SpecDeep == Init /\ [][NextDeep]_vars

\* ----------------------------------------------------------------------- C19
\* The depths of the leaves at most fuel child links below node n of the
\* node file nf, n itself being at depth d.
RECURSIVE LeafDepths(_, _, _, _)
LeafDepths(nf, n, d, fuel) ==
    IF NodeFile_get(nf, n).is_leaf # 0 \/ fuel = 0 THEN {d}
    ELSE UNION {LeafDepths(nf, Slot(NodeFile_get(nf, n).child_nodes, i), d + 1, fuel - 1) :
                   i \in 0..NodeFile_get(nf, n).num_keys}

TreeLeafDepths(s) ==
    LeafDepths(s.nodes, s.root_id, 0, s.nodes.free_space_offset \div NODE_BLOCK_ALIGNED_SIZE)

\* The depth of the leftmost leaf.
RECURSIVE LeftDepth(_, _, _)
LeftDepth(nf, n, fuel) ==
    IF NodeFile_get(nf, n).is_leaf # 0 \/ fuel = 0 THEN 0
    ELSE 1 + LeftDepth(nf, Slot(NodeFile_get(nf, n).child_nodes, 0), fuel - 1)

TreeDepth(s) ==
    LeftDepth(s.nodes, s.root_id, s.nodes.free_space_offset \div NODE_BLOCK_ALIGNED_SIZE)

LeavesAtOneDepth == index.err = "ok" => TreeLeafDepths(index) = {TreeDepth(index)}

\* A step changes the depth only together with the root, and a step that
\* replaces the root makes the tree one level deeper.
DepthFollowsRoot ==
    (index.err = "ok" /\ index'.err = "ok") =>
        /\ TreeDepth(index') # TreeDepth(index) => index'.root_id # index.root_id
        /\ index'.root_id # index.root_id => TreeDepth(index') = TreeDepth(index) + 1

\* C19: after successful inserts all leaves are at the same depth; the depth
\* changes only when the root is split, and then by exactly one.
C19_LeavesAtSameDepth == [](LeavesAtOneDepth) /\ [][DepthFollowsRoot]_vars

\* The root was split twice, the second time as an internal node.
C19_Witness == index.err = "ok" /\ TreeDepth(index) = 2 /\ TreeLeafDepths(index) = {2}

\* ----------------------------------------------------------------------- C20
\* The child slots of the allocated pages that number_of_children counts.
ChildSlots ==
    UNION {{<<n, i>> : i \in 0..(number_of_children(index.nodes, n).val - 1)} :
              n \in AllNodes}

\* The ids the child slots hold.
ChildIds == {get_child_node(index.nodes, c[1], c[2]).val : c \in ChildSlots}

\* Every page is a leaf without children or an internal node with
\* num_keys + 1 children, each the id of an allocated page; no page is the
\* child of two slots, and every page but the root is a child.
FlagsMatchChildren ==
    index.err = "ok" =>
        /\ \A n \in AllNodes :
              /\ number_of_children(index.nodes, n) =
                    Res("ok", IF is_leaf(index.nodes, n).val THEN 0 ELSE NumKeysOf(n) + 1)
              /\ is_leaf(index.nodes, n).val =>
                    get_child_node(index.nodes, n, 0).err = "KeyIndexOutOfBounds"
        /\ \A c \in ChildSlots :
              /\ get_child_node(index.nodes, c[1], c[2]).err = "ok"
              /\ get_child_node(index.nodes, c[1], c[2]).val # c[1]
        /\ Cardinality(ChildIds) = Cardinality(ChildSlots)
        /\ ChildIds = AllNodes \ {index.root_id}

\* A page allocated by a step is the new root, which is internal, or the
\* right neighbour of the node it was split off, whose leaf flag it shares.
NewNodesFollowSource ==
    (index.err = "ok" /\ index'.err = "ok") =>
        \A m \in (0..(index'.nodes.free_space_offset \div NODE_BLOCK_ALIGNED_SIZE - 1))
                    \ AllNodes :
            IF m = index'.root_id THEN ~is_leaf(index'.nodes, m).val
            ELSE \E p \in 0..(index'.nodes.free_space_offset \div NODE_BLOCK_ALIGNED_SIZE - 1) :
                 \E j \in 1..NodeFile_get(index'.nodes, p).num_keys :
                    /\ get_child_node(index'.nodes, p, j) = Res("ok", m)
                    /\ get_child_node(index'.nodes, p, j - 1).val \in AllNodes
                    /\ is_leaf(index'.nodes, m).val
                          = is_leaf(index.nodes, get_child_node(index'.nodes, p, j - 1).val).val
                    /\ is_leaf(index'.nodes, m).val
                          = is_leaf(index'.nodes, get_child_node(index'.nodes, p, j - 1).val).val

\* C20: the leaf flag of every allocated node is set iff it has no children,
\* an internal node has num_keys + 1 children that are allocated nodes, and a
\* node split off a leaf is a leaf while a node split off an internal node
\* and a new root are internal.
C20_LeafFlagMatchesChildren == [](FlagsMatchChildren) /\ [][NewNodesFollowSource]_vars

\* The root and at least three nodes below it are internal: an internal
\* root and an internal child have been split.
C20_Witness ==
    /\ index.err = "ok"
    /\ ~is_leaf(index.nodes, index.root_id).val
    /\ Cardinality({m \in AllNodes \ {index.root_id} : ~is_leaf(index.nodes, m).val}) >= 3
    /\ \E m \in AllNodes : is_leaf(index.nodes, m).val

\* ------------------------------------------- BtreeIndex: get, len and is_empty
\* Returns None or Some of the value.
RECURSIVE BtreeIndex_search(_, _, _)
BtreeIndex_search(b, node, key) ==
    With(Cardinality({j \in 1..Len(node.keys) :
                        \A m \in 1..j : key > node.keys[m].key}), LAMBDA i :
        IF i < NodeBlock_number_of_keys(node) /\ key = node.keys[i + 1].key
        THEN Some(b.values[node.keys[i + 1].payload_id])
        ELSE IF NodeBlock_is_leaf(node) THEN None
        ELSE BtreeIndex_search(b, b.keys[node.child_nodes[i + 1]], key))

BtreeIndex_get(b, key) == BtreeIndex_search(b, b.keys[b.root_id], key)

BtreeIndex_len(b) == b.nr_elements

\* ----------------------------------------------------------------------- C21
\* The key written by the step: the one the reference map gives the value
\* of this call.
StepKey == CHOOSE k \in DOMAIN model' : model'[k] = ValueOf(ops')

\* Key k is the median of a full node below the root of the BtreeIndex: the
\* descent of insert(k, _) splits that node and promotes k.
BtreeMedianOfFullChild(k) ==
    \E n \in BtreeTreeNodes \ {index.root_id} :
        /\ Len(index.keys[n].keys) = 2 * index.order - 1
        /\ index.keys[n].keys[index.order].key = k

\* C21: an insert whose descent splits a full child and promotes a median
\* equal to the key overwrites the value of the promoted slot, adds no
\* second entry for the key and leaves len() unchanged.  Stated for the
\* BtreeIndex of btree.rs, whose insert returns no value.
C21_PromotedMedianOverwritten ==
    [][(ops' = ops + 1 /\ index.err = "ok" /\ index'.err = "ok"
        /\ BtreeMedianOfFullChild(StepKey)) =>
          /\ BtreeIndex_get(index', StepKey) = Some(ValueOf(ops'))
          /\ BtreeIndex_len(index') = BtreeIndex_len(index)
          /\ Cardinality({s \in BtreeTreeSlots' :
                            BtreeKeysOf(s[1])'[s[2]] = StepKey}) = 1]_vars

\* Key k is the median of a full page below the root.
MedianOfFullChild(k) ==
    \E n \in AllNodes \ {index.root_id} :
        /\ NumKeysOf(n) = 2 * index.order - 1
        /\ KeysOf(n)[index.order] = k

\* The same step of InlineKeyBtreeIndex, which holds: the previous value is
\* returned, the key is in one slot, a slot of the node the descent stopped
\* at, and that node is not the one that was split.
InlinePromotedMedianOverwritten ==
    [][(last'.op = "insert" /\ ops' = ops + 1 /\ index.err = "ok"
        /\ MedianOfFullChild(last'.key)) =>
          /\ index'.err = "ok"
          /\ last'.ret = get(index, last'.key, FALSE).ret
          /\ last'.ret.some
          /\ get(index', last'.key, FALSE).ret = Some(last'.value)
          /\ len(index') = len(index)
          /\ Cardinality({s \in TreeSlots' : KeysOf(s[1])'[s[2]] = last'.key}) = 1
          /\ search(index'.nodes, index'.root_id, last'.key).node
                = index'.last_inserted_node_id
          /\ search(index'.nodes, index'.root_id, last'.key).node
                # search(index.nodes, index.root_id, last'.key).node]_vars


\* ----------------------------------------------------------------------- C22
\* The keys of the subtree of page n of a node file in key order: child 0,
\* key 0, child 1, key 1, ...
RECURSIVE WalkKeys(_, _, _)
RECURSIVE WalkFrom(_, _, _, _)
WalkKeys(nf, n, fuel) ==
    IF NodeFile_get(nf, n).is_leaf # 0 \/ fuel = 0
    THEN [j \in 1..NodeFile_get(nf, n).num_keys |-> Slot(NodeFile_get(nf, n).keys, j - 1)]
    ELSE WalkFrom(nf, n, 0, fuel)

WalkFrom(nf, n, i, fuel) ==
    WalkKeys(nf, Slot(NodeFile_get(nf, n).child_nodes, i), fuel - 1)
       \o (IF i < NodeFile_get(nf, n).num_keys
           THEN <<Slot(NodeFile_get(nf, n).keys, i)>> \o WalkFrom(nf, n, i + 1, fuel)
           ELSE << >>)

NodesOf(s) == 0..((s.nodes.free_space_offset \div NODE_BLOCK_ALIGNED_SIZE) - 1)

\* Ordering, occupancy and leaf uniformity of an index value.
WellFormed(s) ==
    /\ \E w \in {WalkKeys(s.nodes, s.root_id, Cardinality(NodesOf(s)))} :
          /\ \A j \in 1..(Len(w) - 1) : w[j] < w[j + 1]
          /\ Len(w) = s.nr_elements
    /\ \A n \in NodesOf(s) :
          /\ NodeFile_get(s.nodes, n).num_keys <= 2 * s.order - 1
          /\ n # s.root_id => NodeFile_get(s.nodes, n).num_keys >= s.order - 1
    /\ TreeLeafDepths(s) = {TreeDepth(s)}

\* The guard of the fast path of insert.
FastPath(s, key) ==
    /\ number_of_keys_or_0(s.nodes, s.last_inserted_node_id) > 0
    /\ number_of_keys_or_0(s.nodes, s.last_inserted_node_id) < 2 * s.order - 1
    /\ key >= get_key(s.nodes, s.last_inserted_node_id, 0).val
    /\ key <= get_key(s.nodes, s.last_inserted_node_id,
                      number_of_keys_or_0(s.nodes, s.last_inserted_node_id) - 1).val

\* The key-to-value map of an index value.
MapOf(s) == [k \in Keys |-> get(s, k, FALSE).ret]

\* What a caller sees of an insert: the error, the returned Option, the map
\* and len().
Observed(s) == <<s.err, s.ret, MapOf(s), len(s)>>

\* C22: in every reachable state, an insert that takes the fast path through
\* the last inserted node returns the same value and leaves the same map and
\* the same len() as the descent from the root, and the tree it leaves is
\* ordered, within the occupancy bounds and has its leaves at one depth.
C22_FastPathEquivalent ==
    index.err = "ok" =>
        \A key \in Keys :
            FastPath(index, key) =>
                /\ Observed(insert(index, key, ValueOf(ops + 1)))
                      = Observed(insert_from_root(index, key, ValueOf(ops + 1)))
                /\ insert(index, key, ValueOf(ops + 1)).err = "ok"
                /\ WellFormed(insert(index, key, ValueOf(ops + 1)))

\* The fast path starts at an internal node that does not hold the key and
\* descends to the leaf that does.
C22_Witness ==
    /\ index.err = "ok"
    /\ ~is_leaf(index.nodes, index.last_inserted_node_id).val
    /\ \E key \in Keys :
          /\ FastPath(index, key)
          /\ ~binary_search(index.nodes, index.last_inserted_node_id, key).val.found
          /\ insert(index, key, ValueOf(ops + 1)).ret.some
          /\ insert(index, key, ValueOf(ops + 1)).last_inserted_node_id
                # index.last_inserted_node_id


\* ----------------------------------------------------------------------- C23
\* C23: an insert of key k leaves the result of get unchanged for every key
\* other than k, and every key stored before it is stored after it.
C23_InsertFrame ==
    [][(last'.op = "insert" /\ ops' = ops + 1 /\ index.err = "ok") =>
          \A k \in Keys :
             /\ k # last'.key =>
                   /\ get(index', k, FALSE).err = "ok"
                   /\ get(index', k, FALSE).ret = get(index, k, FALSE).ret
             /\ contains_key(index, k).val =>
                   contains_key(index', k) = Res("ok", TRUE)]_vars

\* The last insert split the full right leaf of a root with one key and
\* then overwrote a one-byte value by a three-byte value, which moved to a
\* new block; four other keys are stored.
C23_Witness ==
    /\ index.err = "ok" /\ last.op = "insert" /\ last.ret.some
    /\ last.ret.v < BigValue /\ last.value >= BigValue
    /\ len(index) = MaxKey
    /\ AllocatedNodes = 4
    /\ \E f \in {search(index.nodes, index.root_id, last.key)} :
          /\ f.found
          /\ get_payload(index.nodes, f.node, f.i).val
                \in DOMAIN index.values.relocated_blocks


\* ----------------------------------------------------------------------- C24
\* Runs of inserts in descending key order: every call writes the smallest
\* stored key again or the key below it, so that every split is a split of
\* child 0, whose parent moves all its entries to the right.
InsertDescending ==
    \E key \in {MaxDeepKey + 1 - Cardinality(DOMAIN model),
                MaxDeepKey - Cardinality(DOMAIN model)} :
       /\ key \in 1..MaxDeepKey
       /\ InsertCall(key, MaxDeepOps)

NextSplit == InsertDescending

SpecSplit == Init /\ [][NextSplit]_vars

\* The (key, payload) pairs and the children of page n of an index value.
PagePairs(s, n) ==
    [j \in 1..NodeFile_get(s.nodes, n).num_keys |->
        <<Slot(NodeFile_get(s.nodes, n).keys, j - 1),
          Slot(NodeFile_get(s.nodes, n).payloads, j - 1)>>]

PageChildren(s, n) ==
    [j \in 1..number_of_children(s.nodes, n).val |->
        Slot(NodeFile_get(s.nodes, n).child_nodes, j - 1)]

\* The elements a..b of a sequence, as far as it has them.
Part(q, a, b) ==
    [j \in 1..((IF b <= Len(q) THEN b ELSE Len(q)) - a + 1) |-> q[j + a - 1]]

\* The full children of the parents that are not full: the pairs
\* (parent, child_idx) split_child is called with.
SplitPoints(s) ==
    {pi \in UNION {{<<p, i>> : i \in 0..(number_of_children(s.nodes, p).val - 1)} :
                      p \in NodesOf(s)} :
        /\ Len(PagePairs(s, pi[1])) < 2 * s.order - 1
        /\ Len(PagePairs(s, Slot(NodeFile_get(s.nodes, pi[1]).child_nodes, pi[2])))
              = 2 * s.order - 1}

\* What split_child(p, i, t) has to leave of the index s, given the child c
\* it splits and the result r.
SplitChildPost(s, p, i, c, r) ==
    /\ r.err = "ok"
    /\ <<r.split_left, r.split_right>> = <<c, Cardinality(NodesOf(s))>>
    /\ NodesOf(r) = NodesOf(s) \cup {r.split_right}
    /\ PagePairs(r, c) = Part(PagePairs(s, c), 1, s.order - 1)
    /\ PagePairs(r, r.split_right) = Part(PagePairs(s, c), s.order + 1, 2 * s.order - 1)
    /\ is_leaf(r.nodes, c) = is_leaf(s.nodes, c)
    /\ is_leaf(r.nodes, r.split_right) = is_leaf(s.nodes, c)
    /\ PageChildren(r, c) = Part(PageChildren(s, c), 1, s.order)
    /\ PageChildren(r, r.split_right) = Part(PageChildren(s, c), s.order + 1, 2 * s.order)
    /\ PagePairs(r, p) = Part(PagePairs(s, p), 1, i)
                            \o <<PagePairs(s, c)[s.order]>>
                            \o Part(PagePairs(s, p), i + 1, Len(PagePairs(s, p)))
    /\ PageChildren(r, p) = Part(PageChildren(s, p), 1, i + 1)
                               \o <<r.split_right>>
                               \o Part(PageChildren(s, p), i + 2, Len(PageChildren(s, p)))
    /\ \A n \in NodesOf(s) \ {p, c} :
          /\ PagePairs(r, n) = PagePairs(s, n)
          /\ PageChildren(r, n) = PageChildren(s, n)
    /\ r.values = s.values
    /\ <<r.root_id, r.nr_elements, r.order>> = <<s.root_id, s.nr_elements, s.order>>

\* C24: split_child of a full child of a parent that is not full leaves the
\* lower t-1 entries in the child, moves the upper t-1 entries (and the upper
\* t children) in order to a new node, puts the median entry at child_idx of
\* the parent and the new node at child_idx + 1, shifts the parent's later
\* entries and children right by one, returns (child, new node) and changes
\* no other page and no value.
C24_SplitChild ==
    index.err = "ok" =>
        \A pi \in SplitPoints(index) :
            SplitChildPost(index, pi[1], pi[2],
                           get_child_node(index.nodes, pi[1], pi[2]).val,
                           split_child(index, pi[1], pi[2], index.order))

\* A full internal node is child 0 of a parent that holds a key.
C24_Witness ==
    /\ index.err = "ok"
    /\ \E pi \in SplitPoints(index) :
          /\ pi[2] = 0
          /\ ~is_leaf(index.nodes, get_child_node(index.nodes, pi[1], 0).val).val
          /\ Len(PagePairs(index, pi[1])) >= 1


\* The same statement for split_child of the BtreeIndex of btree.rs, whose
\* nodes are blocks holding vectors: it holds in every state of SpecBtree.
BtreeSplitPoints ==
    {pi \in UNION {{<<p, i>> : i \in 0..(Len(index.keys[p].child_nodes) - 1)} :
                      p \in 1..Len(index.keys)} :
        /\ Len(index.keys[pi[1]].keys) < 2 * index.order - 1
        /\ Len(index.keys[index.keys[pi[1]].child_nodes[pi[2] + 1]].keys)
              = 2 * index.order - 1}

BtreeSplitChildPost(b, parent, i, c, r) ==
    /\ r.left.id = c.id /\ r.right.id = Len(b.keys) + 1
    /\ Len(r.b.keys) = Len(b.keys) + 1
    /\ r.left = r.b.keys[c.id] /\ r.right = r.b.keys[r.right.id]
    /\ r.parent = r.b.keys[parent.id]
    /\ r.left.keys = Part(c.keys, 1, b.order - 1)
    /\ r.right.keys = Part(c.keys, b.order + 1, 2 * b.order - 1)
    /\ r.left.child_nodes = Part(c.child_nodes, 1, b.order)
    /\ r.right.child_nodes = Part(c.child_nodes, b.order + 1, 2 * b.order)
    /\ r.parent.keys = Part(parent.keys, 1, i) \o <<c.keys[b.order]>>
                          \o Part(parent.keys, i + 1, Len(parent.keys))
    /\ r.parent.child_nodes = Part(parent.child_nodes, 1, i + 1) \o <<r.right.id>>
                          \o Part(parent.child_nodes, i + 2, Len(parent.child_nodes))
    /\ \A n \in (1..Len(b.keys)) \ {parent.id, c.id} : r.b.keys[n] = b.keys[n]
    /\ r.b.values = b.values
    /\ <<r.b.root_id, r.b.nr_elements, r.b.order>> = <<b.root_id, b.nr_elements, b.order>>

BtreeSplitChild ==
    index.err = "ok" =>
        \A pi \in BtreeSplitPoints :
            BtreeSplitChildPost(index, index.keys[pi[1]], pi[2],
                                index.keys[index.keys[pi[1]].child_nodes[pi[2] + 1]],
                                BtreeIndex_split_child(index, index.keys[pi[1]], pi[2]))


\* ----------------------------------------------------------------------- C25
\* What split_root_node(old_root, t) has to leave of the index s, given its
\* result r: the new root is the page allocated first, the sibling the one
\* allocated after it.
SplitRootPost(s, r) ==
    /\ r.err = "ok"
    /\ r.new_node = Cardinality(NodesOf(s))
    /\ NodesOf(r) = NodesOf(s) \cup {r.new_node, r.new_node + 1}
    /\ is_leaf(r.nodes, r.new_node) = Res("ok", FALSE)
    /\ PagePairs(r, r.new_node) = <<PagePairs(s, s.root_id)[s.order]>>
    /\ PageChildren(r, r.new_node) = <<s.root_id, r.new_node + 1>>
    /\ PagePairs(r, s.root_id) = Part(PagePairs(s, s.root_id), 1, s.order - 1)
    /\ PagePairs(r, r.new_node + 1)
          = Part(PagePairs(s, s.root_id), s.order + 1, 2 * s.order - 1)
    /\ is_leaf(r.nodes, s.root_id) = is_leaf(s.nodes, s.root_id)
    /\ is_leaf(r.nodes, r.new_node + 1) = is_leaf(s.nodes, s.root_id)
    /\ PageChildren(r, s.root_id) = Part(PageChildren(s, s.root_id), 1, s.order)
    /\ PageChildren(r, r.new_node + 1)
          = Part(PageChildren(s, s.root_id), s.order + 1, 2 * s.order)
    /\ \A n \in NodesOf(s) \ {s.root_id} :
          /\ PagePairs(r, n) = PagePairs(s, n)
          /\ PageChildren(r, n) = PageChildren(s, n)
    /\ r.values = s.values

RootIsFull(s) == Len(PagePairs(s, s.root_id)) = 2 * s.order - 1

SplitRootNode ==
    (index.err = "ok" /\ RootIsFull(index)) =>
        SplitRootPost(index, split_root_node(index, index.root_id, index.order))

\* An insert that finds the root full and does not take the fast path makes
\* the node split_root_node returns the root; every other insert keeps the
\* root.
RootFollowsSplit ==
    (last'.op = "insert" /\ ops' = ops + 1 /\ index.err = "ok") =>
        /\ index'.err = "ok"
        /\ index'.root_id =
              IF RootIsFull(index) /\ ~FastPath(index, last'.key)
              THEN split_root_node(index, index.root_id, index.order).new_node
              ELSE index.root_id

\* C25: split_root_node of a full root returns a new internal node with one
\* key, the median entry of the old root, and two children: the old root,
\* which keeps its lower t-1 entries, and a new sibling with the upper t-1
\* entries and, for an internal root, the upper t children; the insert that
\* called it makes the returned node the root.
C25_SplitRootNode == [](SplitRootNode) /\ [][RootFollowsSplit]_vars

\* The last insert split an internal root: the root is a page allocated
\* later, holds one key and has two internal children.
C25_Witness ==
    /\ index.err = "ok" /\ last.op = "insert"
    /\ index.root_id > 0
    /\ Len(PagePairs(index, index.root_id)) = 1
    /\ \A j \in 1..2 :
          ~is_leaf(index.nodes, PageChildren(index, index.root_id)[j]).val
    /\ PageChildren(index, index.root_id)[2] = index.root_id + 1


\* ----------------------------------------------------------------------- C26
\* The relocation map has entries only for ids allocate_block returned to
\* the caller; every entry leads in one step to a block that is no key of
\* the map and that holds the value of the last put to the id.
RelocationsFlat ==
    index.err = "ok" =>
        /\ DOMAIN index.values.relocated_blocks \subseteq DOMAIN model
        /\ \A b \in DOMAIN index.values.relocated_blocks :
              /\ index.values.relocated_blocks[b] \notin DOMAIN index.values.relocated_blocks
              /\ index.values.relocated_blocks[b] \notin DOMAIN model
              /\ model[b].some
              /\ read_block_vec(index.values, index.values.relocated_blocks[b])
                    = Res("ok", model[b].v)
        /\ \A b, c \in DOMAIN index.values.relocated_blocks :
              index.values.relocated_blocks[b] = index.values.relocated_blocks[c] => b = c

\* A put that changes the map enters or overwrites the entry of the id it
\* was called with, and the target is the block it allocated.
RelocationOverwritten ==
    (last'.op = "put" /\ index'.err = "ok"
     /\ index'.values.relocated_blocks # index.values.relocated_blocks) =>
        /\ DOMAIN index'.values.relocated_blocks
              = DOMAIN index.values.relocated_blocks \cup {last'.key}
        /\ index'.values.relocated_blocks[last'.key] = index.values.free_space_offset
        /\ \A b \in DOMAIN index.values.relocated_blocks \ {last'.key} :
              index'.values.relocated_blocks[b] = index.values.relocated_blocks[b]

\* C26: after any sequence of put calls the relocation map is flat, and a
\* block that overflows again after a relocation has its entry overwritten
\* with the newest block.
C26_RelocationMapFlat == [](RelocationsFlat) /\ [][RelocationOverwritten]_vars

\* A block was relocated a second time: the target of its entry is not the
\* first block allocated after it.
C26_Witness ==
    /\ index.err = "ok" /\ last.op = "put"
    /\ last.key \in DOMAIN index.values.relocated_blocks
    /\ Len(last.value) = PAGE_SIZE
    /\ Cardinality(DOMAIN model) = 1
    /\ Cardinality(DOMAIN index.values.blocks) = 3


\* ----------------------------------------------------------------------- C27
\* C27: in every state of the store every cache entry holds what the bytes
\* of its block deserialize to, no block has two entries, and the entry of
\* the block that holds the value of an id is the value of the last put to
\* that id, so that a hit returns what a read of the mapping returns.
C27_CacheAgreesWithBlocks ==
    index.err = "ok" =>
        /\ \A j \in 1..Len(index.values.cache) :
              /\ read_block_vec(index.values, index.values.cache[j].id)
                    = Res("ok", index.values.cache[j].val)
              /\ CacheIndex(index.values.cache, index.values.cache[j].id) = j
        /\ \A b \in DOMAIN model :
              \A h \in {get_cached_entry(index.values, Relocated(index.values, b), FALSE)} :
                  h.hit => /\ model[b] = Some(h.val)
                           /\ read_block_vec(index.values, Relocated(index.values, b))
                                 = Res("ok", h.val)

\* With a cache of two entries, the first block of an id was written and
\* cached and has left the cache since, after two relocations; the block
\* that holds the value now is a hit.
C27_Witness ==
    /\ index.err = "ok" /\ Len(index.values.cache) = 2
    /\ \E b \in DOMAIN index.values.relocated_blocks :
          /\ block_header(index.values, b).used > 0
          /\ CacheIndex(index.values.cache, b) = 0
          /\ get_cached_entry(index.values, index.values.relocated_blocks[b], FALSE).hit
          /\ \E j \in 1..2 :
                index.values.cache[j].id \notin {b, index.values.relocated_blocks[b]}

\* ----------------------------------------------------------------------- C28
\* The block cache on its own: up to MaxCacheBlocks blocks, values that fit
\* their blocks, get_owned with the mutex free or held by another caller.
\* model keeps two orders of the block ids, oldest first: by the last put
\* (put_order) and by the last put or cache hit (use_order).
MaxCacheOps == 7
MaxCacheBlocks == 3

CacheSizes == {0, 1, 2}

CacheValues == {Vec(1, 2), Vec(5, 2)}

\* The id moves to the end of the order.
Touch(q, id) == SelectSeq(q, LAMBDA x : x # id) \o <<id>>

\* The position of an id in an order, 0 when it is absent.
Rank(q, id) ==
    IF \E j \in 1..Len(q) : q[j] = id THEN CHOOSE j \in 1..Len(q) : q[j] = id ELSE 0

CachedIds(vf) == {vf.cache[j].id : j \in 1..Len(vf.cache)}

InitCache ==
    /\ config \in [block_cache_size : CacheSizes, capacity : {0}]
    /\ index = [err |-> "ok",
                values |-> TemporaryBlockFile_with_capacity(config.capacity,
                                                            config.block_cache_size)]
    /\ model = [put_order |-> <<>>, use_order |-> <<>>, ids |-> {}]
    /\ ops = 0
    /\ last = NoCall
    /\ readers = NoReaders
    /\ cache_lock = 0

CacheAllocate ==
    /\ index.err = "ok"
    /\ ops < MaxCacheOps
    /\ Cardinality(model.ids) < MaxCacheBlocks
    /\ \E a \in {allocate_block(index.values, 4)} :
          /\ index' = [err |-> a.err, values |-> a.vf]
          /\ model' = [model EXCEPT !.ids = model.ids \cup {a.val}]
          /\ last' = [op |-> "allocate_block", key |-> a.val, key2 |-> 0,
                      value |-> 4, ret |-> None, err |-> a.err]
    /\ ops' = ops + 1
    /\ UNCHANGED <<config, readers, cache_lock>>

CachePut ==
    /\ index.err = "ok"
    /\ ops < MaxCacheOps
    /\ \E id \in model.ids, v \in CacheValues :
       \E w \in {put_vec(index.values, id, v)} :
          /\ index' = [err |-> w.err, values |-> w.vf]
          /\ model' = [model EXCEPT !.put_order = Touch(model.put_order, id),
                                    !.use_order = Touch(model.use_order, id)]
          /\ last' = [op |-> "put", key |-> id, key2 |-> 0,
                      value |-> v, ret |-> None, err |-> w.err]
    /\ ops' = ops + 1
    /\ UNCHANGED <<config, readers, cache_lock>>

\* get_owned(&self) of a block that was put; locked: another caller holds
\* the mutex of the cache and try_lock fails.
CacheGet ==
    /\ index.err = "ok"
    /\ ops < MaxCacheOps
    /\ \E id \in {b \in model.ids : Rank(model.put_order, b) # 0}, locked \in BOOLEAN :
       \E r \in {get_owned_vec(index.values, id, locked)} :
          /\ index' = [err |-> r.err, values |-> r.vf]
          /\ model' = IF ~locked /\ id \in CachedIds(index.values)
                      THEN [model EXCEPT !.use_order = Touch(model.use_order, id)]
                      ELSE model
          /\ last' = [op |-> "get_owned", key |-> id, key2 |-> 0,
                      value |-> r.val, ret |-> None, err |-> r.err]
    /\ ops' = ops + 1
    /\ UNCHANGED <<config, readers, cache_lock>>

NextCache == CacheAllocate \/ CachePut \/ CacheGet

SpecCache == InitCache /\ [][NextCache]_vars

\* The cache never holds more entries than block_cache_size.
CacheBounded ==
    index.err = "ok" => Len(index.values.cache) <= config.block_cache_size

\* The entries a step removes from the cache are removed by a put, and each
\* of them is the first of the entries of the cache in the given order.
EvictsFirstOf(order) ==
    \A e \in CachedIds(index.values) \ CachedIds(index'.values) :
        /\ last'.op = "put"
        /\ \A x \in CachedIds(index.values) : Rank(order, e) <= Rank(order, x)

\* C28 as stated: the cache holds at most block_cache_size entries and a
\* put that overflows it evicts the entry whose put is the oldest, whatever
\* get calls happened since.
C28_EvictsOldestInserted ==
    [](CacheBounded) /\ [][EvictsFirstOf(model.put_order)]_vars

\* C28 amended: the cache holds at most block_cache_size entries and a put
\* that overflows it evicts the least recently used entry, the one whose
\* last put or cache hit of get is the oldest.
C28_EvictsLeastRecentlyUsed ==
    [](CacheBounded) /\ [][EvictsFirstOf(model.use_order)]_vars

\* A put evicted an entry that was put after an entry the cache still
\* holds, which a get had hit.
C28_Witness ==
    /\ index.err = "ok" /\ last.op = "put"
    /\ config.block_cache_size = 2 /\ Len(index.values.cache) = 2
    /\ \E e \in model.ids \ CachedIds(index.values) :
       \E x \in CachedIds(index.values) :
          /\ Rank(model.put_order, e) > Rank(model.put_order, x)
          /\ Rank(model.put_order, x) > 0
          /\ Rank(model.use_order, e) < Rank(model.use_order, x)


\* ----------------------------------------------------------------------- C29
\* A reader inside get_owned always has a step of its own to take, whoever
\* holds the mutex of the cache.
ReaderNeverWaits ==
    \A t \in Threads :
        /\ readers[t].pc = "try_lock" => ENABLED TryLock(t)
        /\ readers[t].pc = "read" => ENABLED ReadBlock(t)

\* A reader that calls try_lock while another thread holds the mutex goes on
\* to read_block and touches neither the cache nor the mutex; read_block
\* completes the call with the value a hit of the cache would have returned.
ReaderSkipsHeldCache ==
    \A t \in Threads :
        /\ (readers[t].pc = "try_lock" /\ cache_lock # 0 /\ readers'[t] # readers[t]) =>
              /\ readers'[t] = [readers[t] EXCEPT !.pc = "read"]
              /\ UNCHANGED <<index, cache_lock>>
        /\ (readers[t].pc = "read" /\ readers'[t] # readers[t]) =>
              /\ readers'[t].pc = "done" /\ readers'[t].err = "ok"
              /\ UNCHANGED <<index, cache_lock>>
              /\ \A c \in {get_cached_entry(index.values, readers[t].id, FALSE)} :
                    c.hit => readers'[t].ret = Some(c.val)

\* C29: get and get_owned never wait for the mutex of the block cache: with
\* the mutex held by another thread they skip the cache, read the block from
\* the mapping and return what a cache hit would have returned.
C29_GetNeverBlocks == [](ReaderNeverWaits) /\ [][ReaderSkipsHeldCache]_vars

\* A reader was refused the mutex, which the other thread still holds, and
\* has returned the value of a block that is in the cache.
C29_Witness ==
    \E t \in Threads :
        /\ readers[t].pc = "done" /\ readers[t].ret.some
        /\ cache_lock \in Threads \ {t}
        /\ readers[cache_lock].pc = "locked"
        /\ get_cached_entry(index.values, readers[t].id, FALSE).hit
        /\ readers[cache_lock].id = readers[t].id
        /\ index.values.cache[Len(index.values.cache)].id # readers[t].id


\* ----------------------------------------------------------------------- C31
\* The iterators step by step.  The index receives MaxIterKey keys in
\* ascending order at most; range() or into_iter() then borrows it, and
\* every step is one turn of the loop `while let Some(e) = self.stack.pop()`
\* of next().  last is the iterator: its stack and bounds, the work units
\* popped so far (popped), the keys yielded so far (yielded), the number of
\* next() calls that returned (calls) and done, set by the call that
\* returned None.
MaxIterKey == 12

IterBoundKeys == {3, 8}

IterBounds ==
    {Unbounded} \cup {Included(k) : k \in IterBoundKeys}
                \cup {Excluded(k) : k \in IterBoundKeys}

IterInsert ==
    /\ last.op \in {"none", "insert"}
    /\ InsertCall(Cardinality(DOMAIN model) + 1, MaxIterKey)

Iterator(op, err, stack, start_bound, end_bound) ==
    [op |-> op, err |-> err, stack |-> stack, start |-> start_bound,
     end |-> end_bound, popped |-> <<>>, yielded |-> <<>>, calls |-> 0,
     done |-> FALSE]

IterRange ==
    /\ index.err = "ok"
    /\ last.op \in {"none", "insert"}
    /\ \E start_bound \in IterBounds, end_bound \in IterBounds :
       \E it \in {range(index, start_bound, end_bound)} :
          last' = Iterator("range", it.err, it.stack, start_bound, end_bound)
    /\ UNCHANGED <<index, config, model, ops, readers, cache_lock>>

IterIntoIter ==
    /\ index.err = "ok"
    /\ last.op \in {"none", "insert"}
    /\ \E it \in {into_iter(index)} :
          last' = Iterator("into_iter", it.err, it.stack, Unbounded, Unbounded)
    /\ UNCHANGED <<index, config, model, ops, readers, cache_lock>>

\* Mutant: the Child entry is read from the top of the stack and left there.
Range_pop_peeking(nf, vf, it) ==
    IF Len(it.stack) = 0 THEN [it EXCEPT !.done = TRUE, !.calls = it.calls + 1]
    ELSE With(it.stack[Len(it.stack)], LAMBDA e :
         With([it EXCEPT !.stack = SubSeq(it.stack, 1, Len(it.stack) - 1),
                         !.popped = Append(it.popped, e)], LAMBDA it1 :
            IF e.kind = "Child"
            THEN With(get_child_node(nf, e.node, e.idx), LAMBDA c :
                    IF c.err # "ok"
                    THEN [it1 EXCEPT !.err = c.err, !.calls = it.calls + 1]
                    ELSE With(find_range(nf, c.val, it.start, it.end),
                              LAMBDA new_elements :
                            [it1 EXCEPT !.err = new_elements.err,
                                        !.stack = it.stack \o Reverse(new_elements.val)]))
            ELSE With(get_key_value_tuple(nf, vf, e.node, e.idx), LAMBDA kv :
                    [it1 EXCEPT !.err = kv.err, !.calls = it.calls + 1,
                                !.yielded = Append(it.yielded, kv.key),
                                !.vf = kv.vf])))

\* One turn of the loop of Range::next and BtreeIntoIter::next on the
\* iterator it (with the field vf for the value store): an empty stack ends
\* the call with None, a Child entry is replaced by the entries of the
\* child, a Key entry ends the call with its pair.
Range_pop(nf, vf, it) ==
    IF Len(it.stack) = 0 THEN [it EXCEPT !.done = TRUE, !.calls = it.calls + 1]
    ELSE With(it.stack[Len(it.stack)], LAMBDA e :
         With([it EXCEPT !.stack = SubSeq(it.stack, 1, Len(it.stack) - 1),
                         !.popped = Append(it.popped, e)], LAMBDA it1 :
            IF e.kind = "Child"
            THEN With(get_child_node(nf, e.node, e.idx), LAMBDA c :
                    IF c.err # "ok"
                    THEN [it1 EXCEPT !.err = c.err, !.calls = it.calls + 1]
                    ELSE With(find_range(nf, c.val, it.start, it.end),
                              LAMBDA new_elements :
                            [it1 EXCEPT !.err = new_elements.err,
                                        !.stack = it1.stack \o Reverse(new_elements.val)]))
            ELSE With(get_key_value_tuple(nf, vf, e.node, e.idx), LAMBDA kv :
                    [it1 EXCEPT !.err = kv.err, !.calls = it.calls + 1,
                                !.yielded = Append(it.yielded, kv.key),
                                !.vf = kv.vf])))

WithoutStore(it) == [f \in (DOMAIN it) \ {"vf"} |-> it[f]]

IterPop ==
    /\ last.op \in {"range", "into_iter"}
    /\ last.err = "ok" /\ ~last.done
    /\ \E it \in {Range_pop(index.nodes, index.values,
                            [f \in (DOMAIN last) \cup {"vf"} |->
                                IF f = "vf" THEN index.values ELSE last[f]])} :
          /\ last' = WithoutStore(it)
          /\ index' = [index EXCEPT !.values = it.vf]
    /\ UNCHANGED <<config, model, ops, readers, cache_lock>>

NextIter == IterInsert \/ IterRange \/ IterIntoIter \/ IterPop

SpecIter == Init /\ [][NextIter]_vars

IterOpen == last.op \in {"range", "into_iter"}

IterDone == IterOpen /\ last.done

\* The work units of the tree: one Key unit per key slot, one Child unit
\* per child slot.
WorkUnits(s) ==
    UNION {{Key(n, i) : i \in 0..(Len(PagePairs(s, n)) - 1)}
              \cup {Child(n, i) : i \in 0..(Len(PageChildren(s, n)) - 1)} :
              n \in NodesOf(s)}

SeqRange(q) == {q[j] : j \in 1..Len(q)}

\* No unit was popped twice or is pending twice or after it was popped, the
\* units are units of the tree, the keys yielded are ascending, and there
\* are no more of them than len() and no more returned calls than len() + 1.
IterVisitsOnce ==
    IterOpen =>
        /\ last.err = "ok"
        /\ Cardinality(SeqRange(last.popped \o last.stack))
              = Len(last.popped) + Len(last.stack)
        /\ SeqRange(last.popped \o last.stack) \subseteq WorkUnits(index)
        /\ \A j \in 1..(Len(last.yielded) - 1) : last.yielded[j] < last.yielded[j + 1]
        /\ Len(last.yielded) <= len(index)
        /\ last.calls = Len(last.yielded) + (IF last.done THEN 1 ELSE 0)

\* The turns of the loop an iterator has left at most: one per unit of the
\* tree that was not popped, and the one that finds the stack empty.
IterMeasure ==
    Cardinality(WorkUnits(index)) - Len(last.popped) + (IF last.done THEN 0 ELSE 1)

\* Every step of an iterator is a turn of the loop that lowers the measure,
\* which never falls below 0; an iterator that has not returned None can
\* take a turn.
IterProgress ==
    IterOpen =>
        /\ IterOpen' /\ index'.nodes = index.nodes
        /\ IterMeasure' < IterMeasure
        /\ IterMeasure' >= 0
        /\ last'.done \/ last'.err = "ok"

MaxLenOps == 5

LenCapacities == {0, 1, 4096}

LenRequests == {128, 1024, 4096, 8192, 9000}

InitLen ==
    /\ config \in [region : {"tuple"}, capacity : LenCapacities]
    /\ index = [err |-> "ok", mmap |-> map_anon(InitialLen(config))]
    /\ model = <<>>
    /\ ops = 0
    /\ last = NoCall
    /\ readers = NoReaders
    /\ cache_lock = 0

GrowLen ==
    /\ ops < MaxLenOps
    /\ \E requested_size \in LenRequests :
       \E m \in {mmap_grow(index.mmap, requested_size)} :
          /\ index' = [index EXCEPT !.mmap = m]
          /\ model' = Append(model, <<requested_size, m.len>>)
          /\ last' = [op |-> "grow", key |-> requested_size, key2 |-> index.mmap.len,
                      value |-> 0, ret |-> None, err |-> "ok"]
    /\ ops' = ops + 1
    /\ UNCHANGED <<config, readers, cache_lock>>

NextLen == GrowLen

SpecLen == InitLen /\ [][NextLen]_vars

\* The length before the j-th call of the history.
LenBefore(j) == IF j = 1 THEN (IF config.capacity = 0 THEN 1 ELSE config.capacity)
                ELSE model[j - 1][2]

\* The calls and the lengths of grow_mmap_from_zero_capacity.
ExampleRequests == <<128, 4096, 1024, 8192, 9000>>

ExampleLengths == <<128, 4096, 4096, 8192, 16384>>

\* C32: a region created with capacity c is max(c, 1) bytes long; grow(m)
\* leaves the length alone when m is at most the length and makes it the
\* larger of m and the double of the length otherwise; from capacity 0 the
\* calls grow(128), grow(4096), grow(1024), grow(8192), grow(9000) give the
\* lengths 128, 4096, 4096, 8192, 16384.
C32_GrowLengths ==
    /\ model = <<>> =>
          /\ index.mmap.len >= 1 /\ index.mmap.len >= config.capacity
          /\ index.mmap.len = 1 \/ index.mmap.len = config.capacity
    /\ Len(model) > 0 => index.mmap.len = model[Len(model)][2]
    /\ \A j \in 1..Len(model) :
          /\ model[j][1] <= LenBefore(j) => model[j][2] = LenBefore(j)
          /\ model[j][1] > LenBefore(j) =>
                /\ model[j][2] >= model[j][1] /\ model[j][2] >= 2 * LenBefore(j)
                /\ model[j][2] = model[j][1] \/ model[j][2] = 2 * LenBefore(j)
    /\ (/\ config.capacity = 0
        /\ \A j \in 1..Len(model) : model[j][1] = ExampleRequests[j]) =>
          \A j \in 1..Len(model) : model[j][2] = ExampleLengths[j]

\* Reached: the five calls of the example from capacity 0, the last one
\* doubling 8192 for a request of 9000.
C32_Witness ==
    /\ config.capacity = 0
    /\ Len(model) = 5
    /\ \A j \in 1..5 : model[j][1] = ExampleRequests[j]
    /\ index.mmap.len = 16384
    /\ last.key = 9000 /\ last.key2 = 8192


\* ----------------------------------------------------------------------- C33
\* The bytes [id, id + 16 + capacity) of the block id.
BlockBytes(vf, id) == id..(id + BlockHeader_size + vf.blocks[id].capacity - 1)

\* The blocks are pairwise disjoint, below the free offset and inside the
\* mapping.
BlocksDisjoint ==
    /\ index.err = "ok"
    /\ index.values.free_space_offset <= index.values.mmap_len
    /\ \A b \in AllocatedBlocks :
          /\ b >= 0
          /\ b + BlockHeader_size + index.values.blocks[b].capacity
                <= index.values.free_space_offset
          /\ \A c \in AllocatedBlocks \ {b} :
                BlockBytes(index.values, b) \cap BlockBytes(index.values, c) = {}

\* A step of allocate_block: last'.key is the id returned, last'.value the
\* capacity asked for.
AllocateBlockPost ==
    (ops' = ops + 1 /\ last'.op = "allocate_block") =>
        /\ last'.err = "ok"
        /\ last'.key = index.values.free_space_offset
        /\ last'.key \notin AllocatedBlocks
        /\ DOMAIN index'.values.blocks = AllocatedBlocks \cup {last'.key}
        /\ index'.values.blocks[last'.key].capacity = last'.value
        /\ index'.values.blocks[last'.key].used = 0
        /\ index'.values.free_space_offset
              = index.values.free_space_offset + BlockHeader_size + last'.value
        /\ index'.values.mmap_len >= index'.values.free_space_offset
        /\ index'.values.mmap_len >= index.values.mmap_len
        /\ \A b \in AllocatedBlocks : index'.values.blocks[b] = index.values.blocks[b]
        /\ index'.values.relocated_blocks = index.values.relocated_blocks

\* C33: allocate_block(capacity) returns the free offset at the call, writes
\* a header with that capacity and used = 0 and advances the free offset by
\* 16 + capacity, growing the mapping when needed, and leaves every
\* existing block as it was; after any sequence of allocations and puts the
\* byte ranges of all blocks are pairwise disjoint and inside the mapping.
C33_BlocksDisjoint == [](BlocksDisjoint) /\ [][AllocateBlockPost]_vars

\* Reached: an allocation that grew the mapping, behind a block a relocation
\* allocated and next to a block that holds a value.
C33_Witness ==
    /\ last.op = "allocate_block"
    /\ last.key = 4116
    /\ Cardinality(AllocatedBlocks) = 3
    /\ DOMAIN index.values.relocated_blocks # {}
    /\ index.values.mmap_len = 2 * 4116
    /\ \E b \in AllocatedBlocks : index.values.blocks[b].used > 0


\* ----------------------------------------------------------------------- C34
\* A step of put: last'.key is the id, last'.value the vector written.
IsPutStep == ops' = ops + 1 /\ last'.op = "put"

\* The put of this step needs no more bytes than the block that holds the
\* id's value has.
PutFits ==
    Len(serialize_vec(last'.value))
        <= block_header(index.values, Relocated(index.values, last'.key)).capacity

\* A put that fits writes the block in place.
PutInPlace ==
    (IsPutStep /\ PutFits) =>
        /\ last'.err = "ok"
        /\ index'.values.relocated_blocks = index.values.relocated_blocks
        /\ index'.values.free_space_offset = index.values.free_space_offset
        /\ index'.values.mmap_len = index.values.mmap_len
        /\ DOMAIN index'.values.blocks = AllocatedBlocks
        /\ \A b \in AllocatedBlocks :
              IF b = Relocated(index.values, last'.key)
              THEN /\ index'.values.blocks[b].capacity = index.values.blocks[b].capacity
                   /\ index'.values.blocks[b].used = Len(serialize_vec(last'.value))
              ELSE index'.values.blocks[b] = index.values.blocks[b]

\* The relocation table changes only in a put that does not fit, and then
\* in the entry of the id that was put, which names the new block.
RelocationOnlyOnOverflow ==
    index'.values.relocated_blocks # index.values.relocated_blocks =>
        /\ IsPutStep /\ ~PutFits
        /\ DOMAIN index'.values.relocated_blocks
              = (DOMAIN index.values.relocated_blocks) \cup {last'.key}
        /\ index'.values.relocated_blocks[last'.key] = index.values.free_space_offset
        /\ \A b \in (DOMAIN index.values.relocated_blocks) \ {last'.key} :
              index'.values.relocated_blocks[b] = index.values.relocated_blocks[b]

\* C34: a put whose serialized size is at most the capacity of the id's
\* current block adds or changes no relocation entry, leaves the free
\* offset, the length of the mapping and the block's capacity as they were,
\* sets used to the serialized size and leaves every other block alone; a
\* relocation entry appears or changes only in a put that exceeds the
\* capacity.
C34_PutInPlace == [][PutInPlace /\ RelocationOnlyOnOverflow]_vars

\* Reached: a block that was relocated is put a value of three bytes, which
\* is written into the block of the relocation, next to another block.
C34_Witness ==
    /\ last.op = "put"
    /\ last.value = Vec(1, 2)
    /\ last.key \in DOMAIN index.values.relocated_blocks
    /\ Cardinality(DOMAIN model) = 2
    /\ Cardinality(AllocatedBlocks) = 3
    /\ index.values.blocks[index.values.relocated_blocks[last.key]].used = 3
    /\ index.values.blocks[index.values.relocated_blocks[last.key]].capacity
          = page_aligned_capacity(2 * 9)


\* ------------------------------------------------------------ node store alone
\* The node page store on its own: index.nodes is the store, model the
\* sequence of the ids allocate_new_node returned, ops the number of calls.
\* An error of an accessor is returned to the caller (last.err) and the
\* store stays in use.
MaxNodeOps == 5
MaxNodePages == 3

NodeKeyValues == {2, 4, 6}

NodeCapacities == {0, 2}

InitNode ==
    /\ config \in [capacity : NodeCapacities]
    /\ index = [err |-> "ok", nodes |-> NodeFile_with_capacity(config.capacity),
                new_node |-> 0]
    /\ model = <<>>
    /\ ops = 0
    /\ last = NoCall
    /\ readers = NoReaders
    /\ cache_lock = 0

NodeIds == 0..(AllocatedNodes - 1)

NumKeys(n) == NodeFile_get(index.nodes, n).num_keys

\* Slot indices asked for: inside, at and beyond the keys and the children
\* of the node, and at and beyond the end of the slot arrays.
SlotIndexes(n) ==
    {i \in {0, NumKeys(n) - 1, NumKeys(n), NumKeys(n) + 1, NumKeys(n) + 2,
            MAX_NUMBER_KEYS, MAX_NUMBER_CHILD_NODES} : i >= 0}

NodeCall(op, node_id, i, value, err) ==
    [op |-> op, key |-> node_id, key2 |-> i, value |-> value, ret |-> None,
     err |-> err]

NodeAllocate ==
    /\ ops < MaxNodeOps
    /\ AllocatedNodes < MaxNodePages
    /\ \E r \in {allocate_new_node(index)} :
          /\ index' = r
          /\ model' = Append(model, r.new_node)
          /\ last' = NodeCall("allocate_new_node", r.new_node, 0, 0, r.err)
    /\ ops' = ops + 1
    /\ UNCHANGED <<config, readers, cache_lock>>

NodeSetKey ==
    /\ ops < MaxNodeOps
    /\ \E n \in NodeIds : \E i \in SlotIndexes(n) : \E key \in NodeKeyValues :
       \E r \in {set_key(index, n, i, key)} :
          /\ index' = [r EXCEPT !.err = "ok"]
          /\ last' = NodeCall("set_key", n, i, key, r.err)
    /\ ops' = ops + 1
    /\ UNCHANGED <<config, model, readers, cache_lock>>

NodeSetPayload ==
    /\ ops < MaxNodeOps
    /\ \E n \in NodeIds : \E i \in SlotIndexes(n) :
       \E r \in {set_payload(index, n, i, 7)} :
          /\ index' = [r EXCEPT !.err = "ok"]
          /\ last' = NodeCall("set_payload", n, i, 7, r.err)
    /\ ops' = ops + 1
    /\ UNCHANGED <<config, model, readers, cache_lock>>

NodeSetChild ==
    /\ ops < MaxNodeOps
    /\ \E n \in NodeIds : \E i \in SlotIndexes(n) :
       \E r \in {set_child_node(index, n, i, 1)} :
          /\ index' = [r EXCEPT !.err = "ok"]
          /\ last' = NodeCall("set_child_node", n, i, 1, r.err)
    /\ ops' = ops + 1
    /\ UNCHANGED <<config, model, readers, cache_lock>>

\* for i in lo..hi: set_key(node_id, i, 2 * (i + 1)), the calls in ascending
\* order of i (the halves of the interval one after the other): the keys
\* 2, 4, 6, ... appended.
RECURSIVE fill_keys(_, _, _, _)
fill_keys(s, node_id, lo, hi) ==
    IF s.err # "ok" \/ lo >= hi THEN s
    ELSE IF hi = lo + 1 THEN set_key(s, node_id, lo, 2 * (lo + 1))
    ELSE fill_keys(fill_keys(s, node_id, lo, (lo + hi) \div 2),
                   node_id, (lo + hi) \div 2, hi)

NodeFillKeys ==
    /\ ops < MaxNodeOps
    /\ \E n \in NodeIds :
          /\ NumKeys(n) = 0
          /\ \E r \in {fill_keys(index, n, 0, MAX_NUMBER_KEYS)} :
                /\ index' = r
                /\ last' = NodeCall("fill_keys", n, 0, 0, r.err)
    /\ ops' = ops + 1
    /\ UNCHANGED <<config, model, readers, cache_lock>>

NextNode ==
    NodeAllocate \/ NodeSetKey \/ NodeSetPayload \/ NodeSetChild \/ NodeFillKeys

SpecNode == InitNode /\ [][NextNode]_vars

\* ----------------------------------------------------------------------- C35
\* The keys of the node are strictly ascending.
KeysAscending(n) ==
    \A i \in 0..(NumKeys(n) - 2) :
        Slot(NodeFile_get(index.nodes, n).keys, i)
            < Slot(NodeFile_get(index.nodes, n).keys, i + 1)

\* Keys searched for: below, between, at and above the keys of the small
\* nodes and of a full node, whose keys are the even numbers to 338.
SearchProbes == (0..9) \cup {168, 169, 170, 171, 336, 337, 338, 339}

KeyAt(n, i) == Slot(NodeFile_get(index.nodes, n).keys, i)

\* C35: over a node with strictly ascending keys binary_search returns
\* Found(i) exactly when keys[i] is the key, and otherwise NotFound(i) with
\* 0 <= i <= num_keys, every key below index i smaller and every key at i or
\* above larger than the key; an empty node gives NotFound(0).
C35_BinarySearch ==
    \A n \in NodeIds :
        KeysAscending(n) =>
            \A key \in SearchProbes :
            \E r \in {binary_search(index.nodes, n, key)} :
                /\ r.err = "ok"
                /\ r.val.found <=> \E i \in 0..(NumKeys(n) - 1) : KeyAt(n, i) = key
                /\ r.val.found =>
                      r.val.i \in 0..(NumKeys(n) - 1) /\ KeyAt(n, r.val.i) = key
                /\ ~r.val.found =>
                      /\ r.val.i \in 0..NumKeys(n)
                      /\ \A i \in 0..(r.val.i - 1) : KeyAt(n, i) < key
                      /\ \A i \in r.val.i..(NumKeys(n) - 1) : KeyAt(n, i) > key
                /\ NumKeys(n) = 0 => r.val = [found |-> FALSE, i |-> 0]

\* Reached: an empty node, a node whose only key 4 is found at 0 while 5
\* belongs at 1, and a full node in which 338 is found in the last slot and
\* 169 belongs at 84.
C35_Witness ==
    /\ AllocatedNodes = 3
    /\ NumKeys(2) = 0 /\ ~binary_search(index.nodes, 2, 4).val.found
    /\ \E n \in NodeIds :
          /\ NumKeys(n) = 1
          /\ binary_search(index.nodes, n, 4).val = [found |-> TRUE, i |-> 0]
          /\ binary_search(index.nodes, n, 5).val = [found |-> FALSE, i |-> 1]
    /\ \E n \in NodeIds :
          /\ NumKeys(n) = MAX_NUMBER_KEYS /\ KeysAscending(n)
          /\ binary_search(index.nodes, n, 338).val
                = [found |-> TRUE, i |-> MAX_NUMBER_KEYS - 1]
          /\ binary_search(index.nodes, n, 169).val = [found |-> FALSE, i |-> 84]


\* ----------------------------------------------------------------------- C36
NodePage(n) == NodeFile_get(index.nodes, n)

\* number_of_children: num_keys + 1 of an internal node, 0 of a leaf.
ChildCount(n) == IF NodePage(n).is_leaf = 0 THEN NumKeys(n) + 1 ELSE 0

OutOfBounds == "KeyIndexOutOfBounds"

\* The reading accessors at every index asked for.
GettersValidate ==
    \A n \in NodeIds : \A i \in SlotIndexes(n) :
        /\ (i >= NumKeys(n) \/ i >= MAX_NUMBER_KEYS) =>
              /\ get_key(index.nodes, n, i).err = OutOfBounds
              /\ get_payload(index.nodes, n, i).err = OutOfBounds
        /\ (i < NumKeys(n) /\ i < MAX_NUMBER_KEYS) =>
              /\ get_key(index.nodes, n, i) = Res("ok", KeyAt(n, i))
              /\ get_payload(index.nodes, n, i) = Res("ok", Slot(NodePage(n).payloads, i))
        /\ (NodePage(n).is_leaf # 0 \/ i > NumKeys(n) \/ i >= MAX_NUMBER_CHILD_NODES) =>
              get_child_node(index.nodes, n, i).err = OutOfBounds
        /\ (NodePage(n).is_leaf = 0 /\ i <= NumKeys(n) /\ i < MAX_NUMBER_CHILD_NODES) =>
              get_child_node(index.nodes, n, i) = Res("ok", Slot(NodePage(n).child_nodes, i))

\* The call of this step is refused and the store is as before.
Refused == last'.err = OutOfBounds /\ index'.nodes = index.nodes

\* A step of a writing accessor on node last'.key at index last'.key2.
SettersValidate ==
    /\ last'.op = "set_key" =>
          /\ (last'.key2 > NumKeys(last'.key) \/ last'.key2 >= MAX_NUMBER_KEYS) => Refused
          /\ (last'.key2 <= NumKeys(last'.key) /\ last'.key2 < MAX_NUMBER_KEYS) =>
                /\ last'.err = "ok"
                /\ index'.nodes.pages[last'.key] =
                      [NodePage(last'.key) EXCEPT
                          !.keys = SetSlot(NodePage(last'.key).keys, last'.key2,
                                           last'.value),
                          !.num_keys = IF last'.key2 = NumKeys(last'.key)
                                       THEN NumKeys(last'.key) + 1
                                       ELSE NumKeys(last'.key)]
    /\ last'.op = "set_payload" =>
          /\ (last'.key2 >= NumKeys(last'.key) \/ last'.key2 >= MAX_NUMBER_KEYS) => Refused
          /\ (last'.key2 < NumKeys(last'.key) /\ last'.key2 < MAX_NUMBER_KEYS) =>
                /\ last'.err = "ok"
                /\ index'.nodes.pages[last'.key].num_keys = NumKeys(last'.key)
                /\ Slot(index'.nodes.pages[last'.key].payloads, last'.key2) = last'.value
    /\ last'.op = "set_child_node" =>
          /\ (last'.key2 > ChildCount(last'.key)
                 \/ last'.key2 >= MAX_NUMBER_CHILD_NODES) => Refused
          /\ (last'.key2 <= ChildCount(last'.key)
                 /\ last'.key2 < MAX_NUMBER_CHILD_NODES) =>
                /\ last'.err = "ok"
                /\ index'.nodes.pages[last'.key].num_keys = NumKeys(last'.key)
                /\ Slot(index'.nodes.pages[last'.key].child_nodes, last'.key2)
                      = last'.value
    /\ last'.op \in {"set_key", "set_payload", "set_child_node"} =>
          \A n \in NodeIds \ {last'.key} : index'.nodes.pages[n] = NodePage(n)

\* C36: get_key, get_payload and set_payload at i >= num_keys, set_key at
\* i > num_keys, get_child_node on a leaf or at i > num_keys, set_child_node
\* beyond the child count, and every index from MAX_NUMBER_KEYS on (from
\* MAX_NUMBER_KEYS + 1 on for children) return KeyIndexOutOfBounds and leave
\* num_keys, the leaf flag and all slots of the node as they were; set_key
\* at i = num_keys appends and adds one to num_keys, at i < num_keys it
\* overwrites and leaves num_keys alone.
C36_AccessorsValidate == [](GettersValidate) /\ [][SettersValidate]_vars

\* Reached: set_child_node at index MAX_NUMBER_KEYS + 1 of a full internal
\* node, which is at its child count, has been refused.
C36_Witness ==
    /\ last.op = "set_child_node"
    /\ last.key2 = MAX_NUMBER_CHILD_NODES
    /\ last.err = OutOfBounds
    /\ NumKeys(last.key) = MAX_NUMBER_KEYS
    /\ ChildCount(last.key) = MAX_NUMBER_CHILD_NODES
    /\ get_key(index.nodes, last.key, MAX_NUMBER_KEYS).err = OutOfBounds
    /\ get_key(index.nodes, last.key, MAX_NUMBER_KEYS - 1).val = 2 * MAX_NUMBER_KEYS


\* ----------------------------------------------------------------------- C37
\* page_aligned_capacity on its own: config.capacity is the argument, last
\* the call made with it.
AlignCapacities == (1..20) \cup (2030..2050) \cup (4070..4100) \cup (8170..8195)

InitAlign ==
    /\ config \in [capacity : AlignCapacities]
    /\ index = [err |-> "ok"]
    /\ model = EmptyMap
    /\ ops = 0
    /\ last = NoCall
    /\ readers = NoReaders
    /\ cache_lock = 0

\* page_aligned_capacity(capacity)
PageAlign ==
    /\ last.op = "none"
    /\ last' = [op |-> "page_aligned_capacity", key |-> config.capacity, key2 |-> 0,
                value |-> page_aligned_capacity(config.capacity), ret |-> None,
                err |-> "ok"]
    /\ ops' = ops + 1
    /\ UNCHANGED <<index, config, model, readers, cache_lock>>

\* The capacity put asks for when a value of new_used_size bytes does not
\* fit: page_aligned_capacity(new_used_size * 2).
RelocateAlign ==
    /\ last.op = "none"
    /\ last' = [op |-> "relocate", key |-> config.capacity, key2 |-> 0,
                value |-> page_aligned_capacity(config.capacity * 2), ret |-> None,
                err |-> "ok"]
    /\ ops' = ops + 1
    /\ UNCHANGED <<index, config, model, readers, cache_lock>>

NextAlign == PageAlign \/ RelocateAlign

SpecAlign == InitAlign /\ [][NextAlign]_vars

\* C37: for every capacity c >= 1 page_aligned_capacity(c) is at least c
\* and the header (16 bytes) plus the value returned is a whole multiple of
\* PAGE_SIZE; the block of capacity page_aligned_capacity(2 * needed) that a
\* relocation allocates can hold the needed bytes.
C37_AtLeastCapacity ==
    /\ last.op = "page_aligned_capacity" =>
          /\ last.value >= last.key
          /\ (BlockHeader_size + last.value) % PAGE_SIZE = 0
    /\ last.op = "relocate" => last.value >= last.key

\* What the function guarantees: header and block fill whole pages, the
\* smallest number of pages that holds the capacity without the header, so
\* that the value returned may be up to 16 bytes short of the capacity; the
\* block of a relocation holds the needed bytes.
PageAlignedEndsAtPage ==
    /\ last.op = "page_aligned_capacity" =>
          /\ (BlockHeader_size + last.value) % PAGE_SIZE = 0
          /\ BlockHeader_size + last.value >= last.key
          /\ last.value < last.key + PAGE_SIZE - BlockHeader_size
          /\ last.value >= last.key <=> ((last.key - 1) % PAGE_SIZE) + 1
                                           <= PAGE_SIZE - BlockHeader_size
    /\ last.op = "relocate" => last.value >= last.key

\* Reached: page_aligned_capacity(4081) has returned 4080.
PageAlignedShort ==
    last.op = "page_aligned_capacity" /\ last.key = 4081 /\ last.value = 4080


\* ----------------------------------------------------------------------- C38
\* The ids returned so far are 0, 1, 2, ... in this order, one per page.
AllocatesConsecutive ==
    /\ index.err = "ok"
    /\ Len(model) = AllocatedNodes
    /\ \A j \in 1..Len(model) : model[j] = j - 1

\* A step of allocate_new_node: last'.key is the id returned.
AllocateNewNodePost ==
    last'.op = "allocate_new_node" =>
        /\ last'.err = "ok"
        /\ last'.key = AllocatedNodes
        /\ number_of_keys(index'.nodes, last'.key) = Res("ok", 0)
        /\ is_leaf(index'.nodes, last'.key) = Res("ok", TRUE)
        /\ NodeFile_get(index'.nodes, last'.key).is_leaf = 1
        /\ NodeFile_get(index'.nodes, last'.key).id = last'.key
        /\ index'.nodes.mmap_len >= index.nodes.mmap_len
        /\ \A n \in NodeIds :
              /\ ~NodeFile_get_panics(index'.nodes, n)
              /\ NodeFile_get(index'.nodes, n) = NodePage(n)

====
